---- MODULE Spec2Model ----
(***************************************************************************)
(* A model of the aichat client core:                                      *)
(*   - json_stream, the incremental frame extractor (client/common.rs);    *)
(*   - send_stream / Client::send_message_streaming, the race between the  *)
(*     stream consumer and the abort watcher (client/common.rs);           *)
(*   - Config's role / session mode machine (config/mod.rs).               *)
(* Each part has its own specification over its own variables; the other   *)
(* parts' variables stay at their initial values.                          *)
(***************************************************************************)
EXTENDS Integers, Sequences, FiniteSets, TLC

VARIABLES
    net,    \* the response body (text, the bytes still to arrive), the handler's
            \* behaviour, and whether a chunk has ended inside a string literal
            \* (midString) or right after an escaping backslash (midEscape)
    js,     \* the locals of json_stream, the handler's calls, its return
    abort,  \* the AbortSignal shared by the watcher, the handler and the renderer
    stream, \* the stream consumer of one exchange: dry_run, the tokens still to
            \* come (source) and those extracted so far, in order (extracted)
    handler,\* the ReplyHandler: its text buffer and what it sent on the channel
    sms,    \* Client::send_message_streaming: where it is, what it returned
    render, \* render_stream: where it is, how many channel events it has read
    ss,     \* send_stream: where it is, what it returned
    config, \* the Config: role, session, model, settings, last_message
    files,  \* the session files by name, and the entries of the messages file
    last,   \* the last operation called: its name, argument and result
    cache,  \* ACCESS_TOKEN, the process-wide (token, expiry) pair
    now,    \* the clock, in seconds: Utc::now().timestamp()
    requests, \* the VertexAIClaude requests under way: where each one is,
            \* and what its prepare_access_token saw and decided
    fetches, \* how many access tokens have been fetched so far
    refreshes \* the (token, expiry) pairs the refreshes assigned, in order

jsonVars == <<net, js>>
streamVars == <<abort, stream, handler, sms, render, ss>>
configVars == <<config, files, last>>
tokenVars == <<cache, now, requests, fetches, refreshes>>
vars == <<net, js, abort, stream, handler, sms, render, ss, config, files, last,
          cache, now, requests, fetches, refreshes>>

---------------------------------------------------------------------------
(* Bounds *)

\* longest enumerated character sequence fed to json_stream
MaxLen == 4

\* most text tokens one exchange's stream carries
MaxTokens == 3

\* most exchanges recorded in one session
MaxExchanges == 1

\* most entries appended to the messages file
MaxSaved == 1

\* self.compress_threshold, in tokens
CompressThreshold == 2

---------------------------------------------------------------------------
(* Small helpers on sequences *)

RECURSIVE Flatten(_)
Flatten(seqs) == IF seqs = <<>> THEN <<>> ELSE Head(seqs) \o Flatten(Tail(seqs))

SeqsUpTo(S, n) == UNION {[1..k -> S] : k \in 0..n}

\* Option<T>
None == <<>>
Some(x) == <<x>>

\* Result<T>: a call still running, Ok, or an error with its contexts
Pending == [tag |-> "Pending"]
Ok == [tag |-> "Ok"]
Err(e) == [tag |-> "Err", error |-> e, context |-> <<>>]

\* Result::with_context: Ok stays Ok, an error gets the context on top
WithContext(r, c) ==
    IF r.tag = "Err" THEN [r EXCEPT !.context = <<c>> \o @] ELSE r

---------------------------------------------------------------------------
(* The credential cache: client/vertexai_claude.rs *)

\* the VertexAIClaude requests that may run at once
Requests == {"a", "b"}

\* `static mut ACCESS_TOKEN: (String, i64) = (String::new(), 0)`
EmptyCache == [token |-> <<>>, expiry |-> 0]

\* a request that has not called prepare_access_token
RequestIdle ==
    [pc |-> "idle", saw |-> EmptyCache, at |-> 0, fetched |-> EmptyCache,
     bearer |-> <<>>]

\* the cache's variables while no request is modelled
TokenIdle ==
    /\ cache = EmptyCache
    /\ now = 1
    /\ requests = [r \in Requests |-> RequestIdle]
    /\ fetches = 0
    /\ refreshes = <<>>

---------------------------------------------------------------------------
(* json_stream: client/common.rs                                           *)
(* Characters are one-character strings; a stream item is a sequence of    *)
(* bytes, where an ASCII character is its own byte and the two-byte        *)
(* character U+00E9 arrives as the bytes xC3 xA9.                          *)

LBRACE == "{"
RBRACE == "}"
LBRACK == "["
RBRACK == "]"
QUOTE == "\""
BACKSLASH == "\\"

LeadByte == "xC3"
ContByte == "xA9"
EAcute == "U+00E9"

\* std::str::from_utf8(&chunk) followed by chunk.chars(): a chunk that ends
\* inside a multi-byte character, or starts with a continuation byte, is an
\* error.
RECURSIVE Utf8Chars(_)
Utf8Chars(bytes) ==
    IF bytes = <<>> THEN [ok |-> TRUE, chars |-> <<>>]
    ELSE IF Head(bytes) = ContByte THEN [ok |-> FALSE, chars |-> <<>>]
    ELSE IF Head(bytes) = LeadByte THEN
        IF Len(bytes) >= 2 /\ bytes[2] = ContByte
        THEN LET r == Utf8Chars(Tail(Tail(bytes)))
             IN [ok |-> r.ok, chars |-> <<EAcute>> \o r.chars]
        ELSE [ok |-> FALSE, chars |-> <<>>]
    ELSE LET r == Utf8Chars(Tail(bytes))
         IN [ok |-> r.ok, chars |-> <<Head(bytes)>> \o r.chars]

\* the bytes a text arrives as
RECURSIVE Utf8Bytes(_)
Utf8Bytes(chars) ==
    IF chars = <<>> THEN <<>>
    ELSE (IF Head(chars) = EAcute THEN <<LeadByte, ContByte>> ELSE <<Head(chars)>>)
            \o Utf8Bytes(Tail(chars))

\* Vec::pop: None on an empty vector
Pop(v) == IF v = <<>> THEN v ELSE SubSeq(v, 1, Len(v) - 1)

\* buffer[start..=i].iter().collect(), with Rust's 0-based indices
Slice(buffer, start, i) == SubSeq(buffer, start + 1, i + 1)

\* a failure of the handler that json_stream does not look at
Handle_Swallow(l, value, failAt) == [l EXCEPT !.calls = Append(l.calls, value)]

\* handle(&value): the handler is invoked with the frame; it fails on its
\* failAt-th invocation (0: it never fails).
Handle(l, value, failAt) ==
    LET calls == Append(l.calls, value)
    IN [l EXCEPT !.calls = calls,
                 !.ret = IF Len(calls) = failAt THEN "ErrHandler" ELSE l.ret]

\* `[`: tracked once start is not 0
OpenBracket(l) ==
    IF l.start # 0 THEN [l EXCEPT !.balances = Append(l.balances, LBRACK)] ELSE l

\* `}`: pop, and emit when balances is empty
CloseBrace(l, i, failAt) ==
    LET p == [l EXCEPT !.balances = Pop(l.balances)]
    IN IF p.balances = <<>>
       THEN Handle(p, Slice(p.buffer, p.start, i), failAt)
       ELSE p

\* a scan of a string literal that takes every quote for its end
QuotedChar_NoEscape(l, ch) ==
    [l EXCEPT !.quoting = IF ch = QUOTE THEN FALSE ELSE l.quoting, !.escape = FALSE]

\* inside a string literal
QuotedChar(l, ch) ==
    IF ch = BACKSLASH THEN [l EXCEPT !.escape = ~l.escape]
    ELSE [l EXCEPT !.quoting = IF ~l.escape /\ ch = QUOTE THEN FALSE ELSE l.quoting,
                   !.escape = FALSE]

\* one iteration of `for i in cursor..buffer.len()`
ScanChar(l, i, failAt) ==
    LET ch == l.buffer[i + 1]
    IN IF l.quoting THEN QuotedChar(l, ch)
       ELSE CASE ch = QUOTE -> [l EXCEPT !.quoting = TRUE, !.escape = FALSE]
              [] ch = LBRACE ->
                    [l EXCEPT !.start = IF l.balances = <<>> THEN i ELSE l.start,
                              !.balances = Append(l.balances, ch)]
              [] ch = LBRACK -> OpenBracket(l)
              [] ch = RBRACE -> CloseBrace(l, i, failAt)
              [] ch = RBRACK -> [l EXCEPT !.balances = Pop(l.balances)]
              [] OTHER -> l

\* the for loop; `handle(&value)?` leaves it (and the function) on a failure
RECURSIVE ScanFrom(_, _, _)
ScanFrom(l, i, failAt) ==
    IF i >= Len(l.buffer) \/ l.ret # "running" THEN l
    ELSE ScanFrom(ScanChar(l, i, failAt), i + 1, failAt)

\* a cursor that is not advanced: the next chunk is scanned from the old place
CursorAfter_Stale(l) == l.cursor

\* `cursor = buffer.len()` after the loop
CursorAfter(l) == Len(l.buffer)

\* the body of `while let Some(chunk) = stream.next().await` for Ok(chunk)
OnChunk(l, chunk, failAt) ==
    LET dec == Utf8Chars(chunk)
    IN IF ~dec.ok THEN [l EXCEPT !.ret = "ErrUtf8"]
       ELSE LET ext == [l EXCEPT !.buffer = l.buffer \o dec.chars]
                s == ScanFrom(ext, ext.cursor, failAt)
            IN IF s.ret # "running" THEN s
               ELSE [s EXCEPT !.cursor = CursorAfter(s)]

\* the stream ended: `Ok(())`
OnEnd(l) == [l EXCEPT !.ret = "Ok"]

\* the locals of json_stream at entry
JsonLocals ==
    [buffer |-> <<>>, cursor |-> 0, start |-> 0, balances |-> <<>>,
     quoting |-> FALSE, escape |-> FALSE, calls |-> <<>>, ret |-> "running"]

\* the whole body handed over as one single chunk
OneChunkRun(bytes, failAt) ==
    LET l == OnChunk(JsonLocals, bytes, failAt)
    IN IF l.ret = "running" THEN OnEnd(l) ELSE l

---------------------------------------------------------------------------
(* Config: config/mod.rs. Session (config/session.rs), Role                *)
(* (config/role.rs) and Input (config/input.rs) are modelled from their    *)
(* documented behaviour.                                                   *)

\* list_models(self): the models of the configured clients
Models == {"m1", "m2"}
UnknownModel == "mx"
DefaultModel == "m1"

\* Model::find(&models, value).is_some()
ModelFound(value) == value \in Models

\* self.roles, as loaded from the roles file: r2 sets a model, r3 names a
\* model no client offers
Roles ==
    { [name |-> "r1", temperature |-> Some(1), top_p |-> None, model_id |-> None],
      [name |-> "r2", temperature |-> None, top_p |-> Some(1), model_id |-> Some("m2")],
      [name |-> "r3", temperature |-> None, top_p |-> None,
       model_id |-> Some(UnknownModel)] }
RoleNames == {r.name : r \in Roles}
UnknownRole == "r0"

\* Role::temp(prompt)
RoleTemp == [name |-> "%%", temperature |-> None, top_p |-> None, model_id |-> None]

TEMP_SESSION_NAME == "temp"
SessionNames == {TEMP_SESSION_NAME, "s1"}

\* Session::new(config, name): an empty session on the current model
SessionNew(c, name) ==
    [name |-> name, messages |-> <<>>, temperature |-> c.temperature,
     top_p |-> c.top_p, compress_threshold |-> None, model_id |-> c.model,
     dirty |-> FALSE, compressing |-> FALSE]

\* Session::is_empty
SessionIsEmpty(sess) == sess.messages = <<>>

\* Session::guard_empty
SessionGuardEmpty(sess) == IF SessionIsEmpty(sess) THEN Ok ELSE Err("SessionNotEmpty")

\* Session::add_message(input, output): the user turn and the reply
SessionAddMessage(sess, input, output) ==
    [sess EXCEPT !.messages = @ \o << [role |-> "user", content |-> input],
                                      [role |-> "assistant", content |-> output] >>,
                 !.dirty = TRUE]

\* a load that forgets the threshold of the stored session
SessionLoad_NoThreshold(name, file) ==
    IF file.valid
    THEN [ret |-> Ok, session |-> [file.session EXCEPT !.name = name,
                                                       !.dirty = FALSE,
                                                       !.compressing = FALSE,
                                                       !.compress_threshold = None]]
    ELSE [ret |-> Err("load"), session |-> file.session]

\* Session::load(name, path): the stored session, or an error for a file
\* that is not a serialized session
SessionLoad(name, file) ==
    IF file.valid
    THEN [ret |-> Ok, session |-> [file.session EXCEPT !.name = name,
                                                       !.dirty = FALSE,
                                                       !.compressing = FALSE]]
    ELSE [ret |-> Err("load"), session |-> file.session]

\* Input::session_mut(&mut self.session): the active session
InputSessionMut(input, session) == session

\* what a Config operation leaves: the Config, the files, its result
Outcome(c, f, ret) == [c |-> c, f |-> f, ret |-> ret]

\* Config::set_model
SetModelOp(c, value) ==
    IF ~ModelFound(value) THEN [c |-> c, ret |-> Err("No model")]
    ELSE [c |-> IF c.session # None
                THEN [c EXCEPT !.session[1].model_id = value, !.model = value]
                ELSE IF c.role # None
                THEN [c EXCEPT !.role[1].model_id = Some(value), !.model = value]
                ELSE [c EXCEPT !.model = value],
          ret |-> Ok]

\* Config::restore_model
RestoreModelOp(c) == SetModelOp(c, c.model_id)

\* Config::set_role_obj without the guard_empty check
SetRoleObjOp_NoGuard(c, role) ==
    LET c1 == IF c.session # None
              THEN [c EXCEPT !.session[1].temperature = role.temperature,
                             !.session[1].top_p = role.top_p]
              ELSE c
        m == IF role.model_id # None THEN SetModelOp(c1, role.model_id[1])
             ELSE [c |-> c1, ret |-> Ok]
    IN IF m.ret.tag = "Err" THEN m
       ELSE [c |-> [m.c EXCEPT !.role = Some(role)], ret |-> Ok]

\* Config::set_role_obj
SetRoleObjOp(c, role) ==
    LET guard == IF c.session # None THEN SessionGuardEmpty(c.session[1]) ELSE Ok
        c1 == IF c.session # None
              THEN [c EXCEPT !.session[1].temperature = role.temperature,
                             !.session[1].top_p = role.top_p]
              ELSE c
        m == IF role.model_id # None THEN SetModelOp(c1, role.model_id[1])
             ELSE [c |-> c1, ret |-> Ok]
    IN IF guard.tag = "Err" THEN [c |-> c, ret |-> guard]
       ELSE IF m.ret.tag = "Err" THEN m
       ELSE [c |-> [m.c EXCEPT !.role = Some(role)], ret |-> Ok]

\* Config::retrieve_role and Config::set_role
SetRoleOp(c, name) ==
    IF name \notin RoleNames THEN [c |-> c, ret |-> Err("Unknown role")]
    ELSE SetRoleObjOp(c, CHOOSE r \in Roles : r.name = name)

\* Config::set_prompt
SetPromptOp(c) == SetRoleObjOp(c, RoleTemp)

\* Config::clear_role
ClearRoleOp(c) == RestoreModelOp([c EXCEPT !.role = None])

\* Config::state
StateOf(c) ==
    IF c.session # None
    THEN IF SessionIsEmpty(c.session[1])
         THEN IF c.role # None THEN "EmptySessionWithRole" ELSE "EmptySession"
         ELSE "Session"
    ELSE IF c.role # None THEN "Role" ELSE "Normal"

\* State::unable_change_role
UnableChangeRole == {"Session"}

\* a start that leaves the temp file of an earlier session where it is
StartSessionOpen_KeepFile(c, f, name, removeOk) ==
    IF name = None
    THEN Outcome([c EXCEPT !.session = Some(SessionNew(c, TEMP_SESSION_NAME))], f, Ok)
    ELSE IF f.sessions[name[1]] = None
    THEN Outcome([c EXCEPT !.session = Some(SessionNew(c, name[1]))], f, Ok)
    ELSE LET ld == SessionLoad(name[1], f.sessions[name[1]][1])
             m == SetModelOp([c EXCEPT !.session = Some(ld.session)],
                             ld.session.model_id)
         IN IF ld.ret.tag = "Err" THEN Outcome(c, f, ld.ret)
            ELSE Outcome(m.c, f, m.ret)

\* Config::start_session, the match on the name: a new temp session (a temp
\* file left over is removed first), a new named session, or the stored one
StartSessionOpen(c, f, name, removeOk) ==
    IF name = None
    THEN IF f.sessions[TEMP_SESSION_NAME] # None /\ ~removeOk
         THEN Outcome(c, f, Err("Failed to cleanup previous session"))
         ELSE Outcome([c EXCEPT !.session = Some(SessionNew(c, TEMP_SESSION_NAME))],
                      [f EXCEPT !.sessions[TEMP_SESSION_NAME] = None], Ok)
    ELSE IF f.sessions[name[1]] = None
    THEN Outcome([c EXCEPT !.session = Some(SessionNew(c, name[1]))], f, Ok)
    ELSE LET ld == SessionLoad(name[1], f.sessions[name[1]][1])
             m == SetModelOp([c EXCEPT !.session = Some(ld.session)],
                             ld.session.model_id)
         IN IF ld.ret.tag = "Err" THEN Outcome(c, f, ld.ret)
            ELSE Outcome(m.c, f, m.ret)

\* Config::start_session, the end: an empty session may take in the last
\* question and answer, if the user says so (answer: "yes", "no", or "err"
\* when the prompt fails)
StartSessionIncorporate(c, f, answer) ==
    IF SessionIsEmpty(c.session[1]) /\ c.last_message # None
    THEN CASE answer = "err" -> Outcome(c, f, Err("prompt"))
           [] answer = "yes" ->
                Outcome([c EXCEPT !.session[1] =
                            SessionAddMessage(@, c.last_message[1].input,
                                              c.last_message[1].output)], f, Ok)
           [] OTHER -> Outcome(c, f, Ok)
    ELSE Outcome(c, f, Ok)

\* a start_session that reports success without opening a session
StartSessionOp_NoSession(c, f, name, removeOk, answer) ==
    IF c.session # None THEN Outcome(c, f, Err("Already in a session"))
    ELSE Outcome(c, f, Ok)

\* a start_session that opens the session asked for over the active one
StartSessionOp_Replace(c, f, name, removeOk, answer) ==
    LET o == StartSessionOpen(c, f, name, removeOk)
    IN IF o.ret.tag = "Err" THEN o
       ELSE StartSessionIncorporate(o.c, o.f, answer)

\* Config::start_session
StartSessionOp(c, f, name, removeOk, answer) ==
    IF c.session # None THEN Outcome(c, f, Err("Already in a session"))
    ELSE LET o == StartSessionOpen(c, f, name, removeOk)
         IN IF o.ret.tag = "Err" THEN o
            ELSE StartSessionIncorporate(o.c, o.f, answer)

\* a save_message that remembers the exchange but leaves the session alone
SaveMessageOp_NoSession(c, f, input, output, openOk, writeOk) ==
    Outcome([c EXCEPT !.last_message = Some([input |-> input, output |-> output])],
            f, Ok)

\* Config::save_message
\* a save_message without the early return of dry-run mode
SaveMessageOp_NoDryRun(c, f, input, output, openOk, writeOk) ==
    LET c1 == [c EXCEPT !.last_message = Some([input |-> input, output |-> output])]
    IN IF InputSessionMut(input, c1.session) # None
       THEN Outcome([c1 EXCEPT !.session[1] = SessionAddMessage(@, input, output)],
                    f, Ok)
       ELSE IF ~c1.save \/ output = "" \/ ~openOk THEN Outcome(c1, f, Ok)
       ELSE Outcome(c1,
                    [f EXCEPT !.messages =
                        Append(@, [input |-> input, output |-> output,
                                   role |-> IF c1.role # None
                                            THEN Some(c1.role[1].name) ELSE None])],
                    Ok)

SaveMessageOp(c, f, input, output, openOk, writeOk) ==
    LET c1 == [c EXCEPT !.last_message = Some([input |-> input, output |-> output])]
    IN IF c1.dry_run THEN Outcome(c1, f, Ok)
       ELSE IF InputSessionMut(input, c1.session) # None
       THEN Outcome([c1 EXCEPT !.session[1] = SessionAddMessage(@, input, output)],
                    f, Ok)
       ELSE IF ~c1.save THEN Outcome(c1, f, Ok)
       ELSE IF ~openOk THEN Outcome(c1, f, Err("Failed to create/append"))
       ELSE IF output = "" \/ ~c1.save THEN Outcome(c1, f, Ok)
       ELSE IF ~writeOk THEN Outcome(c1, f, Err("Failed to save message"))
       ELSE Outcome(c1,
                    [f EXCEPT !.messages =
                        Append(@, [input |-> input, output |-> output,
                                   role |-> IF c1.role # None
                                            THEN Some(c1.role[1].name) ELSE None])],
                    Ok)

\* Config::default, after Config::init has set the model up
ConfigNew(dry_run, save) ==
    [model_id |-> DefaultModel, model |-> DefaultModel, temperature |-> Some(0),
     top_p |-> None, compress_threshold |-> CompressThreshold,
     dry_run |-> dry_run, save |-> save, role |-> None,
     session |-> None, last_message |-> None]

\* a session file of an earlier run
StoredSession(model) ==
    [valid |-> TRUE,
     session |-> SessionAddMessage(
                    [SessionNew(ConfigNew(FALSE, FALSE), "s1") EXCEPT !.model_id = model],
                    "q", "a")]
CorruptFile == [StoredSession(DefaultModel) EXCEPT !.valid = FALSE]

\* the sessions directory at start, as (temp file, s1 file): none, a session
\* stored on m2, one stored on a model no client offers, a corrupt file
StoredFiles ==
    { <<None, None>>,
      <<Some(StoredSession(DefaultModel)), Some(StoredSession("m2"))>>,
      <<None, Some(StoredSession(UnknownModel))>>,
      <<Some(StoredSession(DefaultModel)), Some(CorruptFile)>> }

\* the sessions directory and the messages file at start
InitialFiles ==
    { [sessions |-> [n \in SessionNames |->
                        IF n = TEMP_SESSION_NAME THEN d[1] ELSE d[2]],
       messages |-> <<>>] : d \in StoredFiles }

\* what the file system and the user may answer to start_session, as
\* (the temp file can be removed, the answer to the prompt): a failed removal
\* ends the call before the prompt
StartSessionEnv == { <<TRUE, "yes">>, <<TRUE, "no">>, <<TRUE, "err">>, <<FALSE, "no">> }

\* what the file system may answer to save_message, as (the messages file
\* opens, the write succeeds): a failed open ends the call before the write
SaveMessageEnv == { <<TRUE, TRUE>>, <<TRUE, FALSE>>, <<FALSE, TRUE>> }

Inputs == {"q"}
Outputs == {"", "a"}

\* the Config's variables while no Config operation is modelled
ConfigIdle ==
    /\ config = ConfigNew(FALSE, FALSE)
    /\ files = [sessions |-> [n \in SessionNames |-> None], messages |-> <<>>]
    /\ last = [op |-> "init", arg |-> None, ret |-> Ok]

---------------------------------------------------------------------------
(* send_stream and Client::send_message_streaming: client/common.rs        *)
(* A text is a sequence of characters, a token a non-empty text.           *)

\* ReplyHandler::new(tx, abort)
HandlerNew == [buffer |-> <<>>, sender |-> <<>>]

\* ReplyHandler::text: the token is appended to the buffer and sent on the
\* render channel
HandlerText(h, token) ==
    [h EXCEPT !.buffer = @ \o token,
              !.sender = Append(@, [event |-> "Text", text |-> token])]

\* a done() whose marker overtakes the tokens already sent
HandlerDone_First(h) == [h EXCEPT !.sender = <<[event |-> "Done"]>> \o @]

\* ReplyHandler::done: the terminal marker is sent on the render channel
HandlerDone(h) == [h EXCEPT !.sender = Append(@, [event |-> "Done"])]

\* ReplyHandler::get_buffer
HandlerGetBuffer(h) == h.buffer

\* how many times done() has been invoked, and the tokens text() was given
DoneCount(h) == Cardinality({i \in 1..Len(h.sender) : h.sender[i].event = "Done"})
RECURSIVE SentTexts(_)
SentTexts(events) ==
    IF events = <<>> THEN <<>>
    ELSE (IF Head(events).event = "Text" THEN <<Head(events).text>> ELSE <<>>)
            \o SentTexts(Tail(events))

Tokens == { <<"h">>, <<"i", "!">> }
TokenSeqs == SeqsUpTo(Tokens, MaxTokens)

\* what the async block of the select! can fail with: build_client()?,
\* prepare_send_data()? and send_message_streaming_inner
ConsumerErrors == {"build_client", "prepare_send_data", "inner"}

\* the state of the pipeline's variables while no exchange is modelled
StreamIdle ==
    /\ abort = FALSE
    /\ stream = [dry_run |-> FALSE, source |-> <<>>, extracted |-> <<>>]
    /\ handler = HandlerNew
    /\ sms = [pc |-> "idle", inner |-> Pending, ret |-> Pending, tick |-> <<>>]
    /\ render = [pc |-> "idle", seen |-> 0]
    /\ ss = [pc |-> "idle", ret |-> Pending]

\* send_stream up to the join!: the channel and the handler are created and
\* both futures start
InitStream ==
    /\ abort = FALSE
    /\ \E d \in BOOLEAN, src \in TokenSeqs :
          stream = [dry_run |-> d, source |-> src, extracted |-> <<>>]
    /\ handler = HandlerNew
    /\ sms = [pc |-> "select", inner |-> Pending, ret |-> Pending, tick |-> <<>>]
    /\ render = [pc |-> "running", seen |-> 0]
    /\ ss = [pc |-> "join", ret |-> Pending]
    /\ net = [text |-> <<>>, rest |-> <<>>, failAt |-> 0, objects |-> <<>>,
              midString |-> FALSE, midEscape |-> FALSE]
    /\ js = JsonLocals
    /\ ConfigIdle
    /\ TokenIdle

\* the AbortSignal is set from outside (a key press)
SetAbort ==
    /\ ss.pc = "join"
    /\ ~abort
    /\ abort' = TRUE
    /\ UNCHANGED <<stream, handler, sms, render, ss>>
    /\ UNCHANGED <<jsonVars, configVars, tokenVars>>

\* the async block delivers the next token: handler.text(&token)
ConsumerText ==
    /\ sms.pc = "select"
    /\ stream.source # <<>>
    /\ handler' = HandlerText(handler, Head(stream.source))
    /\ stream' = [stream EXCEPT !.source = Tail(@),
                                !.extracted = Append(@, Head(stream.source))]
    /\ UNCHANGED <<abort, sms, render, ss>>
    /\ UNCHANGED <<jsonVars, configVars, tokenVars>>

\* the result handed back before the finalization hook has run
CompletionArm_NoDone(h, ret) ==
    [handler |-> h, ret |-> WithContext(ret, "Failed to get answer")]

\* the arm of the select! for the async block: done, then its result with
\* the context of the exchange
CompletionArm(h, ret) ==
    [handler |-> HandlerDone(h), ret |-> WithContext(ret, "Failed to get answer")]

\* an abort arm that forgets the finalization hook
AbortArm_NoDone(h) == [handler |-> h, ret |-> Ok]

\* an abort arm that reports the abort as an error
AbortArm_Error(h) == [handler |-> HandlerDone(h), ret |-> Err("aborted")]

\* the arm of the select! for watch_abort: done, then Ok(())
AbortArm(h) == [handler |-> HandlerDone(h), ret |-> Ok]

\* a watcher whose loop never breaks
WatchAbortBreaks_Never(a) == FALSE

\* watch_abort: `if abort.aborted() { break; }`
WatchAbortBreaks(a) == a

\* the async block ends with ret (the echo or the stream is exhausted, or a
\* step of it failed) and its arm runs
ConsumerReturns(ret) ==
    LET arm == CompletionArm(handler, ret)
    IN /\ handler' = arm.handler
       /\ sms' = [sms EXCEPT !.pc = "returned", !.inner = ret, !.ret = arm.ret]
       /\ UNCHANGED <<abort, stream, render, ss>>

ConsumerOk ==
    /\ sms.pc = "select"
    /\ stream.source = <<>>
    /\ ConsumerReturns(Ok)
    /\ UNCHANGED <<jsonVars, configVars, tokenVars>>

ConsumerErr ==
    /\ sms.pc = "select"
    /\ ~stream.dry_run
    /\ \E e \in ConsumerErrors :
          /\ e \in {"build_client", "prepare_send_data"} => stream.extracted = <<>>
          /\ ConsumerReturns(Err(e))
    /\ UNCHANGED <<jsonVars, configVars, tokenVars>>

\* one round of watch_abort's loop: it breaks and its arm runs, the async
\* block being dropped where it is, or it sleeps
WatchAbort ==
    /\ sms.pc = "select"
    /\ IF WatchAbortBreaks(abort)
       THEN LET arm == AbortArm(handler)
            IN /\ handler' = arm.handler
               /\ sms' = [sms EXCEPT !.pc = "returned", !.ret = arm.ret,
                                     !.tick = HandlerGetBuffer(handler)]
               /\ UNCHANGED <<abort, stream, render, ss>>
       ELSE UNCHANGED streamVars
    /\ UNCHANGED <<jsonVars, configVars, tokenVars>>

\* render_stream reads the next event of the channel; Done ends it
RenderEvent ==
    /\ render.pc = "running"
    /\ render.seen < Len(handler.sender)
    /\ render' = [pc |-> IF handler.sender[render.seen + 1].event = "Done"
                         THEN "Ok" ELSE "running",
                  seen |-> render.seen + 1]
    /\ UNCHANGED <<abort, stream, handler, sms, ss>>
    /\ UNCHANGED <<jsonVars, configVars, tokenVars>>

\* render_stream fails
RenderFails ==
    /\ render.pc = "running"
    /\ render' = [render EXCEPT !.pc = "Err"]
    /\ UNCHANGED <<abort, stream, handler, sms, ss>>
    /\ UNCHANGED <<jsonVars, configVars, tokenVars>>

\* the output taken from a buffer that saw no token
SendStreamOutput_Fresh(h) == HandlerGetBuffer(HandlerNew)

\* `let output = stream_handler.get_buffer().to_string()`
SendStreamOutput(h) == HandlerGetBuffer(h)

\* a failure turned into a success carrying the partial output
SendStreamResult_Swallow(send_ret, output) == [tag |-> "Ok", output |-> output]

\* `match send_ret`
SendStreamResult(send_ret, output) ==
    IF send_ret.tag = "Ok" THEN [tag |-> "Ok", output |-> output] ELSE send_ret

\* send_stream after the join!: both futures are over
SendStreamReturns ==
    /\ ss.pc = "join"
    /\ sms.pc = "returned"
    /\ render.pc \in {"Ok", "Err"}
    /\ ss' = [pc |-> "returned",
              ret |-> SendStreamResult(sms.ret, SendStreamOutput(handler))]
    /\ UNCHANGED <<abort, stream, handler, sms, render>>
    /\ UNCHANGED <<jsonVars, configVars, tokenVars>>

NextStream ==
    SetAbort \/ ConsumerText \/ ConsumerOk \/ ConsumerErr \/ WatchAbort
        \/ RenderEvent \/ RenderFails \/ SendStreamReturns

SpecStream == InitStream /\ [][NextStream]_vars

\* the timer of watch_abort's sleep fires, so its loop keeps being polled
SpecStreamFair == SpecStream /\ WF_vars(WatchAbort)

---------------------------------------------------------------------------
(* The Config operations as actions *)

InitConfig ==
    /\ \E d \in BOOLEAN, sv \in BOOLEAN : config = ConfigNew(d, sv)
    /\ last = [op |-> "init", arg |-> None, ret |-> Ok]
    /\ files \in InitialFiles
    /\ net = [text |-> <<>>, rest |-> <<>>, failAt |-> 0, objects |-> <<>>,
              midString |-> FALSE, midEscape |-> FALSE]
    /\ js = JsonLocals
    /\ StreamIdle
    /\ TokenIdle

\* the call op(arg) has returned ret
Called(op, arg, ret) ==
    /\ last' = [op |-> op, arg |-> arg, ret |-> ret]
    /\ UNCHANGED <<jsonVars, streamVars, tokenVars>>

\* the files an operation leaves
Written(f) == files' = f

SetRole ==
    \E name \in RoleNames \cup {UnknownRole} :
        /\ config' = SetRoleOp(config, name).c
        /\ Called("set_role", name, SetRoleOp(config, name).ret)
        /\ UNCHANGED files

SetPrompt ==
    /\ config' = SetPromptOp(config).c
    /\ Called("set_prompt", RoleTemp.name, SetPromptOp(config).ret)
    /\ UNCHANGED files

SetRoleObj ==
    \E role \in Roles \cup {RoleTemp} :
        /\ config' = SetRoleObjOp(config, role).c
        /\ Called("set_role_obj", role.name, SetRoleObjOp(config, role).ret)
        /\ UNCHANGED files

ClearRole ==
    /\ config' = ClearRoleOp(config).c
    /\ Called("clear_role", None, ClearRoleOp(config).ret)
    /\ UNCHANGED files

StartSession ==
    \E name \in {None, Some("s1")}, env \in StartSessionEnv :
        LET out == StartSessionOp(config, files, name, env[1], env[2])
        IN /\ config' = out.c
           /\ Written(out.f)
           /\ Called("start_session", name, out.ret)

SaveMessage ==
    \E input \in Inputs, output \in Outputs, env \in SaveMessageEnv :
        LET out == SaveMessageOp(config, files, input, output, env[1], env[2])
        IN /\ Len(out.f.messages) <= MaxSaved
           /\ out.c.session # None => Len(out.c.session[1].messages) <= 2 * MaxExchanges
           /\ config' = out.c
           /\ Written(out.f)
           /\ Called("save_message", input, out.ret)

NextConfig ==
    SetRole \/ SetPrompt \/ SetRoleObj \/ ClearRole \/ StartSession \/ SaveMessage

SpecConfig == InitConfig /\ [][NextConfig]_vars

---------------------------------------------------------------------------
(* Ending, saving and compressing a session: config/mod.rs *)

\* most messages a session holds where sessions are ended and compressed
MaxHistory == 4

\* a value returned by an operation that cannot fail
Returned(v) == [tag |-> "Value", value |-> v]

\* Session::is_temp
SessionIsTemp(sess) == sess.name = TEMP_SESSION_NAME

\* Session::save(path): the session is written to its file and is no longer
\* dirty
SessionSave(sess, f) ==
    LET saved == [sess EXCEPT !.dirty = FALSE]
    IN [session |-> saved,
        f |-> [f EXCEPT !.sessions[sess.name] =
                  Some([valid |-> TRUE,
                        session |-> [saved EXCEPT !.compressing = FALSE]])]]

\* Config::save_session_to_file: the directory is made if it is missing,
\* then the session is saved; writeOk tells whether the file system lets
\* both happen
SaveSessionToFile(sess, f, writeOk) ==
    IF ~writeOk THEN [ret |-> Err("Failed to save session"), session |-> sess, f |-> f]
    ELSE [ret |-> Ok, session |-> SessionSave(sess, f).session,
          f |-> SessionSave(sess, f).f]

\* what end_session meets: self.working_mode, session.save_session(), the
\* answer to "Save session?" ("yes", "no", or "err" when the prompt fails),
\* the name given to "Session name:" (none when that prompt fails), and
\* whether the file can be written
EndSessionEnv ==
    [mode : {"Repl", "Command"}, setting : {None, Some(TRUE), Some(FALSE)},
     answer : {"yes", "no", "err"}, named : {Some("s1"), None},
     writeOk : BOOLEAN]

\* end_session's calls, one env for each way through it: outside the REPL,
\* the first prompt failing, the answer no, the second prompt failing, the
\* write failing, and all going well
EndSessionEnvs ==
    { e \in EndSessionEnv :
        \/ e.mode = "Command" /\ e.answer = "yes" /\ e.named # None /\ e.writeOk
        \/ e.mode = "Repl" /\ e.answer # "yes" /\ e.named # None /\ e.writeOk
        \/ e.mode = "Repl" /\ e.answer = "yes" /\ (e.named # None \/ e.writeOk) }

\* Config::end_session, from `if session.dirty && ...` to the save: the
\* session has been taken out of c
EndSessionSave(c, f, session, env) ==
    LET asks == env.setting = None \/ SessionIsTemp(session)
        renamed == IF asks /\ (SessionIsTemp(session) \/ session.name = "")
                           /\ env.named # None
                   THEN [session EXCEPT !.name = env.named[1]]
                   ELSE session
        sv == SaveSessionToFile(renamed, f, env.writeOk)
    IN IF asks /\ env.mode # "Repl" THEN Outcome(c, f, Ok)
       ELSE IF asks /\ env.answer = "err" THEN Outcome(c, f, Err("prompt"))
       ELSE IF asks /\ env.answer = "no" THEN Outcome(c, f, Ok)
       ELSE IF asks /\ (SessionIsTemp(session) \/ session.name = "")
                    /\ env.named = None
       THEN Outcome(c, f, Err("prompt"))
       ELSE IF sv.ret.tag = "Err" THEN Outcome(c, f, sv.ret)
       ELSE LET m == RestoreModelOp(c) IN Outcome(m.c, sv.f, m.ret)

\* an end_session that puts the session back when it returns an error
EndSessionOp_Keep(c, f, env) ==
    IF c.session = None THEN Outcome(c, f, Ok)
    ELSE LET session == c.session[1]
             c1 == [c EXCEPT !.session = None, !.last_message = None]
             o == IF session.dirty /\ env.setting # Some(FALSE)
                  THEN EndSessionSave(c1, f, session, env)
                  ELSE LET m == RestoreModelOp(c1) IN Outcome(m.c, f, m.ret)
         IN IF o.ret.tag = "Err" THEN Outcome(c, f, o.ret) ELSE o

\* Config::end_session
EndSessionOp(c, f, env) ==
    IF c.session = None THEN Outcome(c, f, Ok)
    ELSE LET session == c.session[1]
             c1 == [c EXCEPT !.session = None, !.last_message = None]
         IN IF session.dirty /\ env.setting # Some(FALSE)
            THEN EndSessionSave(c1, f, session, env)
            ELSE LET m == RestoreModelOp(c1) IN Outcome(m.c, f, m.ret)

\* Config::save_session
SaveSessionOp(c, f, name, writeOk) ==
    IF c.session = None THEN Outcome(c, f, Ok)
    ELSE LET session == IF name # "" THEN [c.session[1] EXCEPT !.name = name]
                        ELSE c.session[1]
             sv == SaveSessionToFile(session, f, writeOk)
         IN Outcome([c EXCEPT !.session = Some(sv.session)], sv.f, sv.ret)

\* Session::tokens: the running token estimate of the history, one token a
\* message
SessionTokens(sess) == Len(sess.messages)

\* Session::need_compress
SessionNeedCompress(sess, threshold) ==
    ~sess.compressing /\ SessionTokens(sess) > threshold

\* the summaries a compression may come back with
Summaries == {"s"}

\* format!("{}{}", summary_prompt, summary)
WithSummaryPrompt(summary) == IF summary = "s" THEN "prompt+s" ELSE "prompt+"

\* Session::compress(prompt): one synthetic message takes the place of the
\* history, and the compressing flag is cleared
SessionCompress(sess, prompt) ==
    [sess EXCEPT !.messages = << [role |-> "system", content |-> prompt] >>,
                 !.compressing = FALSE,
                 !.dirty = TRUE]

\* a trigger that does not raise the compressing flag
ShouldCompressSessionOp_NoFlag(c) ==
    IF c.session # None /\ SessionNeedCompress(c.session[1], c.compress_threshold)
    THEN [c |-> c, ret |-> Returned(TRUE)]
    ELSE [c |-> c, ret |-> Returned(FALSE)]

\* Config::should_compress_session
ShouldCompressSessionOp(c) ==
    IF c.session # None /\ SessionNeedCompress(c.session[1], c.compress_threshold)
    THEN [c |-> [c EXCEPT !.session[1].compressing = TRUE], ret |-> Returned(TRUE)]
    ELSE [c |-> c, ret |-> Returned(FALSE)]

\* a compress_session that leaves the history as it is
CompressSessionOp_Keep(c, summary) ==
    IF c.session # None THEN [c EXCEPT !.session[1].compressing = FALSE] ELSE c

\* a compress_session that makes a session for the summary when none is
\* active
CompressSessionOp_Always(c, summary) ==
    LET session == IF c.session # None THEN c.session[1]
                   ELSE SessionNew(c, TEMP_SESSION_NAME)
    IN [c EXCEPT !.session = Some(SessionCompress(session, WithSummaryPrompt(summary)))]

\* Config::compress_session
CompressSessionOp(c, summary) ==
    IF c.session # None
    THEN [c EXCEPT !.session[1] = SessionCompress(@, WithSummaryPrompt(summary))]
    ELSE c

\* Config::is_compressing_session
IsCompressingSession(c) == c.session # None /\ c.session[1].compressing

\* Config::end_compressing_session
EndCompressingSessionOp(c) ==
    IF c.session # None THEN [c EXCEPT !.session[1].compressing = FALSE] ELSE c

\* the Config at the start: Config::init, and maybe a role set from the
\* command line
InitSession ==
    /\ config \in {ConfigNew(FALSE, FALSE), SetRoleOp(ConfigNew(FALSE, FALSE), "r2").c}
    /\ last = [op |-> "init", arg |-> None, ret |-> Ok]
    /\ files \in InitialFiles
    /\ net = [text |-> <<>>, rest |-> <<>>, failAt |-> 0, objects |-> <<>>,
              midString |-> FALSE, midEscape |-> FALSE]
    /\ js = JsonLocals
    /\ StreamIdle
    /\ TokenIdle

\* save_message of an answered question, the messages file being writable
SaveExchange ==
    \E input \in Inputs, output \in Outputs \ {""} :
        LET out == SaveMessageOp(config, files, input, output, TRUE, TRUE)
        IN /\ out.c.session # None => Len(out.c.session[1].messages) <= MaxHistory
           /\ config' = out.c
           /\ Written(out.f)
           /\ Called("save_message", input, out.ret)

EndSession ==
    \E env \in EndSessionEnvs :
        LET out == EndSessionOp(config, files, env)
        IN /\ config' = out.c
           /\ Written(out.f)
           /\ Called("end_session", None, out.ret)

SaveSession ==
    \E name \in {"", "s1"}, writeOk \in BOOLEAN :
        LET out == SaveSessionOp(config, files, name, writeOk)
        IN /\ config' = out.c
           /\ Written(out.f)
           /\ Called("save_session", name, out.ret)

ShouldCompressSession ==
    /\ config' = ShouldCompressSessionOp(config).c
    /\ Called("should_compress_session", None, ShouldCompressSessionOp(config).ret)
    /\ UNCHANGED files

CompressSession ==
    \E summary \in Summaries :
        /\ config' = CompressSessionOp(config, summary)
        /\ Called("compress_session", summary, Ok)
        /\ UNCHANGED files

EndCompressingSession ==
    /\ config' = EndCompressingSessionOp(config)
    /\ Called("end_compressing_session", None, Ok)
    /\ UNCHANGED files

\* sessions started, filled, saved and ended
NextSession == StartSession \/ SaveExchange \/ EndSession \/ SaveSession

SpecSession == InitSession /\ [][NextSession]_vars

\* sessions started, filled and compressed
NextCompress ==
    StartSession \/ SaveExchange \/ ShouldCompressSession \/ CompressSession
        \/ EndCompressingSession

SpecCompress == InitSession /\ [][NextCompress]_vars

---------------------------------------------------------------------------
(* Temperature, top_p and model, by scope: config/mod.rs *)

\* the values set_temperature and set_top_p are given
SettingValues == {None, Some(2)}

\* a set_temperature that always writes the global value
SetTemperatureOp_Global(c, value) == [c EXCEPT !.temperature = value]

\* Config::set_temperature
SetTemperatureOp(c, value) ==
    IF c.session # None THEN [c EXCEPT !.session[1].temperature = value]
    ELSE IF c.role # None THEN [c EXCEPT !.role[1].temperature = value]
    ELSE [c EXCEPT !.temperature = value]

\* Config::set_top_p
SetTopPOp(c, value) ==
    IF c.session # None THEN [c EXCEPT !.session[1].top_p = value]
    ELSE IF c.role # None THEN [c EXCEPT !.role[1].top_p = value]
    ELSE [c EXCEPT !.top_p = value]

\* the settings looked up with the role before the session
EffectiveSettings_RoleFirst(c) ==
    IF c.role # None
    THEN [temperature |-> c.role[1].temperature, top_p |-> c.role[1].top_p]
    ELSE IF c.session # None
    THEN [temperature |-> c.session[1].temperature, top_p |-> c.session[1].top_p]
    ELSE [temperature |-> c.temperature, top_p |-> c.top_p]

\* Config::system_info: `let (temperature, top_p) = ...`
EffectiveSettings(c) ==
    IF c.session # None
    THEN [temperature |-> c.session[1].temperature, top_p |-> c.session[1].top_p]
    ELSE IF c.role # None
    THEN [temperature |-> c.role[1].temperature, top_p |-> c.role[1].top_p]
    ELSE [temperature |-> c.temperature, top_p |-> c.top_p]

\* the Config at the start, no session stored
InitSettings ==
    /\ ConfigIdle
    /\ net = [text |-> <<>>, rest |-> <<>>, failAt |-> 0, objects |-> <<>>,
              midString |-> FALSE, midEscape |-> FALSE]
    /\ js = JsonLocals
    /\ StreamIdle
    /\ TokenIdle

SetTemperature ==
    \E value \in SettingValues :
        /\ config' = SetTemperatureOp(config, value)
        /\ Called("set_temperature", value, Ok)
        /\ UNCHANGED files

SetTopP ==
    \E value \in SettingValues :
        /\ config' = SetTopPOp(config, value)
        /\ Called("set_top_p", value, Ok)
        /\ UNCHANGED files

SetModel ==
    \E value \in Models \cup {UnknownModel} :
        /\ config' = SetModelOp(config, value).c
        /\ Called("set_model", value, SetModelOp(config, value).ret)
        /\ UNCHANGED files

\* roles set and cleared, a session started, settings changed
NextSettings ==
    SetRole \/ ClearRole \/ StartSession \/ SetTemperature \/ SetTopP \/ SetModel

SpecSettings == InitSettings /\ [][NextSettings]_vars

---------------------------------------------------------------------------
(* prepare_access_token and the requests that use it:                      *)
(* client/vertexai_claude.rs                                               *)

\* the last second of the clock
MaxTime == 4

\* most access tokens fetched
MaxFetches == 2

\* the lifetimes, in seconds, a fetched token may come with
ExpiresIn == {1, 2}

\* the n-th token the token endpoint hands out
TokenNumber(n) == <<n>>

\* a refresh that is also due at the very second of the expiry
NeedsRefresh_AtExpiry(c, t) == c.token = <<>> \/ t >= c.expiry

\* `ACCESS_TOKEN.0.is_empty() || Utc::now().timestamp() > ACCESS_TOKEN.1`
NeedsRefresh(c, t) == c.token = <<>> \/ t > c.expiry

\* `ACCESS_TOKEN = (token, expires_at.timestamp())`, where expires_at is
\* Utc::now() + Duration::try_seconds(expires_in)
Refreshed(token, t, expires_in) == [token |-> token, expiry |-> t + expires_in]

InitToken ==
    /\ TokenIdle
    /\ net = [text |-> <<>>, rest |-> <<>>, failAt |-> 0, objects |-> <<>>,
              midString |-> FALSE, midEscape |-> FALSE]
    /\ js = JsonLocals
    /\ StreamIdle
    /\ ConfigIdle

\* a second passes
Tick ==
    /\ now < MaxTime
    /\ now' = now + 1
    /\ UNCHANGED <<cache, requests, fetches, refreshes>>
    /\ UNCHANGED <<jsonVars, streamVars, configVars>>

\* send_message_inner / send_message_streaming_inner call
\* prepare_access_token, which reads the cache and the clock: it returns
\* Ok(()) at once, or starts to fetch a token
CheckToken(r) ==
    /\ requests[r].pc = "idle"
    /\ requests' = [requests EXCEPT ![r] =
                      [pc |-> IF NeedsRefresh(cache, now) THEN "fetching" ELSE "ready",
                       saw |-> cache, at |-> now, fetched |-> EmptyCache,
                       bearer |-> <<>>]]
    /\ UNCHANGED <<cache, now, fetches, refreshes>>
    /\ UNCHANGED <<jsonVars, streamVars, configVars>>

\* fetch_gcloud_access_token returns a token and its lifetime, and the pair
\* is written to the cache
FetchReturns(r) ==
    /\ requests[r].pc = "fetching"
    /\ fetches < MaxFetches
    /\ \E expires_in \in ExpiresIn :
          LET pair == Refreshed(TokenNumber(fetches + 1), now, expires_in)
          IN  /\ cache' = pair
              /\ refreshes' = Append(refreshes, pair)
              /\ requests' = [requests EXCEPT ![r].pc = "ready",
                                              ![r].fetched = pair]
    /\ fetches' = fetches + 1
    /\ UNCHANGED now
    /\ UNCHANGED <<jsonVars, streamVars, configVars>>

\* a failed fetch after which the request goes on to build its request
FetchFails_Proceeds(r) ==
    /\ requests[r].pc = "fetching"
    /\ requests' = [requests EXCEPT ![r].pc = "ready"]
    /\ UNCHANGED <<cache, now, fetches, refreshes>>
    /\ UNCHANGED <<jsonVars, streamVars, configVars>>

\* fetch_gcloud_access_token fails, or expires_in is no duration:
\* prepare_access_token returns the error and the request is given up
FetchFails(r) ==
    /\ requests[r].pc = "fetching"
    /\ requests' = [requests EXCEPT ![r].pc = "failed"]
    /\ UNCHANGED <<cache, now, fetches, refreshes>>
    /\ UNCHANGED <<jsonVars, streamVars, configVars>>

\* request_builder: `.bearer_auth(&ACCESS_TOKEN.0)`
BuildRequest(r) ==
    /\ requests[r].pc = "ready"
    /\ requests' = [requests EXCEPT ![r].pc = "built", ![r].bearer = cache.token]
    /\ UNCHANGED <<cache, now, fetches, refreshes>>
    /\ UNCHANGED <<jsonVars, streamVars, configVars>>

\* the request is over, sent or given up; the client may send another
RequestEnds(r) ==
    /\ requests[r].pc \in {"built", "failed"}
    /\ requests' = [requests EXCEPT ![r] = RequestIdle]
    /\ UNCHANGED <<cache, now, fetches, refreshes>>
    /\ UNCHANGED <<jsonVars, streamVars, configVars>>

NextToken ==
    \/ Tick
    \/ \E r \in Requests : CheckToken(r)
    \/ \E r \in Requests : FetchReturns(r)
    \/ \E r \in Requests : FetchFails(r)
    \/ \E r \in Requests : BuildRequest(r)
    \/ \E r \in Requests : RequestEnds(r)

SpecToken == InitToken /\ [][NextToken]_vars

---------------------------------------------------------------------------
(* prepare_access_token run by requests on several threads: ACCESS_TOKEN   *)
(* is a `static mut` read and assigned in `unsafe` blocks with no lock, so *)
(* the assignment of the pair is not one step for the other threads        *)

PairFields == {"token", "expiry"}

\* the cache after one field of a fetched pair has been stored
StoreField(c, pair, field) == [c EXCEPT ![field] = pair[field]]

\* the request's position while the named field is still to be stored
Storing(field) == IF field = "token" THEN "storing_token" ELSE "storing_expiry"

\* `ACCESS_TOKEN = (token, expires_at.timestamp())`: one field of the pair
\* is stored, the other one still holds what it held
FetchStores(r) ==
    /\ requests[r].pc = "fetching"
    /\ fetches < MaxFetches
    /\ \E expires_in \in ExpiresIn, first \in PairFields :
          LET pair == Refreshed(TokenNumber(fetches + 1), now, expires_in)
          IN  /\ cache' = StoreField(cache, pair, first)
              /\ refreshes' = Append(refreshes, pair)
              /\ requests' = [requests EXCEPT
                                ![r].pc = Storing(CHOOSE f \in PairFields : f # first),
                                ![r].fetched = pair]
    /\ fetches' = fetches + 1
    /\ UNCHANGED now
    /\ UNCHANGED <<jsonVars, streamVars, configVars>>

\* the other field of the pair is stored and prepare_access_token returns
StoreRest(r) ==
    /\ \E field \in PairFields :
          /\ requests[r].pc = Storing(field)
          /\ cache' = StoreField(cache, requests[r].fetched, field)
    /\ requests' = [requests EXCEPT ![r].pc = "ready"]
    /\ UNCHANGED <<now, fetches, refreshes>>
    /\ UNCHANGED <<jsonVars, streamVars, configVars>>

\* what a read of the String finds that is not a token any refresh stored:
\* the old pointer and length after the old buffer was dropped, or a
\* pointer and a length of two different Strings
TornToken == <<0>>

\* request_builder reads ACCESS_TOKEN.0 while another request is assigning
\* it: the read is unsynchronised, and finds the old token, the new one, or
\* bytes that are neither
BuildDuringStore(r) ==
    /\ requests[r].pc = "ready"
    /\ \E q \in Requests \ {r} :
          /\ requests[q].pc = Storing("token")
          /\ \E token \in {cache.token, requests[q].fetched.token, TornToken} :
                requests' = [requests EXCEPT ![r].pc = "built", ![r].bearer = token]
    /\ UNCHANGED <<cache, now, fetches, refreshes>>
    /\ UNCHANGED <<jsonVars, streamVars, configVars>>

NextTokenRace ==
    \/ NextToken
    \/ \E r \in Requests : FetchStores(r)
    \/ \E r \in Requests : StoreRest(r)
    \/ \E r \in Requests : BuildDuringStore(r)

SpecTokenRace == InitToken /\ [][NextTokenRace]_vars

---------------------------------------------------------------------------
(* A session changed, saved, ended and started again: config/mod.rs *)

\* the values set_compress_threshold is given
ThresholdValues == {Some(1)}

\* value.unwrap_or_default()
UnwrapOrDefault(value) == IF value = None THEN 0 ELSE value[1]

\* Config::set_compress_threshold
SetCompressThresholdOp(c, value) ==
    IF c.session # None THEN [c EXCEPT !.session[1].compress_threshold = value]
    ELSE [c EXCEPT !.compress_threshold = UnwrapOrDefault(value)]

\* set_compress_threshold in a session
SetCompressThreshold ==
    /\ config.session # None
    /\ \E value \in ThresholdValues :
          /\ config' = SetCompressThresholdOp(config, value)
          /\ Called("set_compress_threshold", value, Ok)
          /\ UNCHANGED files

\* set_temperature in a session
SetSessionTemperature ==
    /\ config.session # None
    /\ \E value \in SettingValues \ {None} :
          /\ config' = SetTemperatureOp(config, value)
          /\ Called("set_temperature", value, Ok)
          /\ UNCHANGED files

\* sessions started, filled, given overrides, saved and ended
NextRoundTrip ==
    StartSession \/ SaveExchange \/ SetSessionTemperature \/ SetCompressThreshold
        \/ SaveSession \/ EndSession

SpecRoundTrip == InitSettings /\ [][NextRoundTrip]_vars

---------------------------------------------------------------------------
(* Messages: client/message.rs, and patch_system_message of               *)
(* client/common.rs, which is the same function                            *)

\* most messages in a list handed to patch_system_message
MaxMessages == 3

\* MessageRole
MessageRoles == {"System", "Assistant", "User"}

\* MessageContent::Text(text), a text being a sequence of characters
Text(text) == [tag |-> "Text", text |-> text]

\* MessageContent::Array(list)
Array(list) == [tag |-> "Array", list |-> list]

\* MessageContentPart::Text { text } and ::ImageUrl { image_url }
TextPart(text) == [type |-> "text", text |-> text]
ImageUrlPart(url) == [type |-> "image_url", url |-> url]

NEWLINE == "\n"

\* the "\n\n" of format!("{}\n\n{}", ..) and of join("\n\n")
BlankLine == <<NEWLINE, NEWLINE>>

\* MessageRole::is_system
IsSystem(role) == role = "System"

RECURSIVE JoinTexts(_)
\* the text parts of a list, joined by "\n\n"
JoinTexts(list) ==
    IF list = <<>> THEN <<>>
    ELSE IF Head(list).type # "text" THEN JoinTexts(Tail(list))
    ELSE LET rest == SelectSeq(Tail(list), LAMBDA p : p.type = "text")
         IN IF rest = <<>> THEN Head(list).text
            ELSE Head(list).text \o BlankLine \o JoinTexts(Tail(list))

\* MessageContent::to_text
ToText(content) ==
    IF content.tag = "Text" THEN content.text ELSE JoinTexts(content.list)

\* a patch that puts the message's own text before the system text
PatchSystemMessage_TextFirst(messages) ==
    IF messages = <<>> THEN [tag |-> "Panic"]
    ELSE IF IsSystem(messages[1].role)
    THEN LET system_message == Head(messages)
             rest == Tail(messages)
         IN IF rest # <<>> /\ system_message.content.tag = "Text"
                           /\ rest[1].content.tag = "Text"
            THEN Returned([rest EXCEPT ![1].content =
                              Text(rest[1].content.text \o BlankLine
                                     \o system_message.content.text)])
            ELSE Returned(rest)
    ELSE Returned(messages)

\* a patch that keeps nothing after the message the system text went into
PatchSystemMessage_Truncates(messages) ==
    IF messages = <<>> THEN [tag |-> "Panic"]
    ELSE IF IsSystem(messages[1].role)
    THEN LET system_message == Head(messages)
             rest == Tail(messages)
         IN IF rest # <<>> /\ system_message.content.tag = "Text"
                           /\ rest[1].content.tag = "Text"
            THEN Returned(<<[rest[1] EXCEPT !.content =
                               Text(system_message.content.text \o BlankLine
                                      \o rest[1].content.text)]>>)
            ELSE Returned(rest)
    ELSE Returned(messages)

\* patch_system_message: what it leaves of the list; `messages[0]` panics on
\* an empty list
PatchSystemMessage(messages) ==
    IF messages = <<>> THEN [tag |-> "Panic"]
    ELSE IF IsSystem(messages[1].role)
    THEN LET system_message == Head(messages)
             rest == Tail(messages)
         IN IF rest # <<>> /\ system_message.content.tag = "Text"
                           /\ rest[1].content.tag = "Text"
            THEN Returned([rest EXCEPT ![1].content =
                              Text(system_message.content.text \o BlankLine
                                     \o rest[1].content.text)])
            ELSE Returned(rest)
    ELSE Returned(messages)

\* the contents of the enumerated messages: a text with a quote and a
\* backslash in it, another text, and a list of a text part and an image
Contents ==
    { Text(<<"a", QUOTE, BACKSLASH>>), Text(<<"b">>),
      Array(<<TextPart(<<"c">>), ImageUrlPart("u")>>) }

Messages == [role : MessageRoles, content : Contents]

\* the lists handed to patch_system_message
MessageLists == SeqsUpTo(Messages, MaxMessages)

\* Input::from_str(text, ..) and an input with files: what the user typed
\* and the media attached
PlainInputs == { [text |-> c.text, medias |-> <<>>] : c \in {c \in Contents : c.tag = "Text"} }
MessageInputs == PlainInputs \cup { [text |-> <<"c">>, medias |-> <<"u">>] }

\* Input::to_message_content: the text alone, or the text and the media as
\* parts
ToMessageContent(input) ==
    IF input.medias = <<>> THEN Text(input.text)
    ELSE Array(<<TextPart(input.text)>>
                 \o [i \in 1..Len(input.medias) |-> ImageUrlPart(input.medias[i])])

\* a Message::new that speaks as the assistant
MessageNew_Assistant(input) == [role |-> "Assistant", content |-> ToMessageContent(input)]

\* Message::new
MessageNew(input) == [role |-> "User", content |-> ToMessageContent(input)]

\* #[serde(rename_all = "snake_case")] on MessageRole
SnakeCase(role) ==
    CASE role = "System" -> "system"
      [] role = "Assistant" -> "assistant"
      [] role = "User" -> "user"

RECURSIVE JsonEscape(_)
\* serde_json's escaping of the characters of a string
JsonEscape(text) ==
    IF text = <<>> THEN <<>>
    ELSE (CASE Head(text) = QUOTE -> <<BACKSLASH, QUOTE>>
            [] Head(text) = BACKSLASH -> <<BACKSLASH, BACKSLASH>>
            [] Head(text) = NEWLINE -> <<BACKSLASH, "n">>
            [] OTHER -> <<Head(text)>>) \o JsonEscape(Tail(text))

\* a string as JSON
JsonString(text) == <<QUOTE>> \o JsonEscape(text) \o <<QUOTE>>

\* a field name and its colon
JsonKey(name) == <<QUOTE, name, QUOTE, ":">>

\* #[serde(tag = "type", rename_all = "snake_case")] on MessageContentPart
SerializePart(part) ==
    <<LBRACE>> \o JsonKey("type") \o <<QUOTE, part.type, QUOTE, ",">>
      \o (IF part.type = "text" THEN JsonKey("text") \o JsonString(part.text)
          ELSE JsonKey("image_url") \o <<LBRACE>> \o JsonKey("url")
                 \o JsonString(<<part.url>>) \o <<RBRACE>>)
      \o <<RBRACE>>

RECURSIVE SerializeParts(_)
SerializeParts(list) ==
    IF list = <<>> THEN <<>>
    ELSE SerializePart(Head(list))
           \o (IF Tail(list) = <<>> THEN <<>> ELSE <<",">>)
           \o SerializeParts(Tail(list))

\* #[serde(untagged)] on MessageContent: the value of the variant, bare
SerializeContent(content) ==
    IF content.tag = "Text" THEN JsonString(content.text)
    ELSE <<LBRACK>> \o SerializeParts(content.list) \o <<RBRACK>>

\* serde_json::to_string(&message): the fields in the order of the struct
SerializeMessage(message) ==
    <<LBRACE>> \o JsonKey("role") \o <<QUOTE, SnakeCase(message.role), QUOTE, ",">>
      \o JsonKey("content") \o SerializeContent(message.content) \o <<RBRACE>>

\* patch_system_message is run on a list; what it leaves depends on the list
\* alone, so the lists are tried after a call of another function
PatchSystemMessages ==
    \E messages \in MessageLists :
        /\ last.op # "patch_system_message"
        /\ Called("patch_system_message", messages, PatchSystemMessage(messages))
        /\ UNCHANGED <<config, files>>

\* Message::new(&input)
NewMessage ==
    \E input \in MessageInputs :
        /\ Called("Message::new", input, Returned(MessageNew(input)))
        /\ UNCHANGED <<config, files>>

\* serde_json::to_string of the message just built, or of any other
MessageToString ==
    \E message \in Messages :
        /\ last.op = "Message::new" => message = last.ret.value
        /\ Called("to_string", message, Returned(SerializeMessage(message)))
        /\ UNCHANGED <<config, files>>

NextMessage == PatchSystemMessages \/ NewMessage \/ MessageToString

SpecMessage == InitSettings /\ [][NextMessage]_vars

---------------------------------------------------------------------------
(* An exchange sent on a Config with a role or a session:                  *)
(* client/common.rs                                                        *)

\* the Configs an exchange is sent on: with or without a role, with no
\* session, an empty one, or one that holds an exchange; dry-run or not
ExchangeConfigs ==
    LET plain == {ConfigNew(d, FALSE) : d \in BOOLEAN}
        roled == plain \cup {SetRoleOp(c, "r1").c : c \in plain}
        nofiles == [sessions |-> [n \in SessionNames |-> None], messages |-> <<>>]
        started == {StartSessionOp(c, nofiles, Some("s1"), TRUE, "no").c : c \in roled}
        filled == {SaveMessageOp(c, nofiles, "q", "a", TRUE, TRUE).c : c \in started}
    IN roled \cup started \cup filled

\* an exchange that records the question in the session as it begins
ExchangeConfig_Records(c) ==
    IF c.session # None
    THEN [c EXCEPT !.session[1].messages = Append(@, [role |-> "user", content |-> "q"])]
    ELSE c

\* what send_stream and send_message_streaming leave of the Config they are
\* given: they take read locks only (`config.read()`,
\* `global_config.read()`), so it is as it was
ExchangeConfig(c) == c

InitExchange ==
    /\ config \in ExchangeConfigs
    /\ files = [sessions |-> [n \in SessionNames |-> None], messages |-> <<>>]
    /\ last = [op |-> "init", arg |-> None, ret |-> Ok]
    /\ net = [text |-> <<>>, rest |-> <<>>, failAt |-> 0, objects |-> <<>>,
              midString |-> FALSE, midEscape |-> FALSE]
    /\ js = JsonLocals
    /\ StreamIdle
    /\ TokenIdle

\* send_stream(input, client, config, abort) is called, up to the join!:
\* the channel and the handler are created and both futures start; the
\* async block will echo the input if `global_config.read().dry_run`
ExchangeBegins ==
    /\ ss.pc = "idle"
    /\ abort' = FALSE
    /\ \E src \in TokenSeqs :
          stream' = [dry_run |-> config.dry_run, source |-> src, extracted |-> <<>>]
    /\ handler' = HandlerNew
    /\ sms' = [pc |-> "select", inner |-> Pending, ret |-> Pending, tick |-> <<>>]
    /\ render' = [pc |-> "running", seen |-> 0]
    /\ ss' = [pc |-> "join", ret |-> Pending]
    /\ config' = ExchangeConfig(config)
    /\ last' = [op |-> "send_stream", arg |-> [input |-> "q", config |-> config],
                ret |-> Pending]
    /\ UNCHANGED files
    /\ UNCHANGED <<jsonVars, tokenVars>>

NextExchange == ExchangeBegins \/ NextStream

SpecExchange == InitExchange /\ [][NextExchange]_vars

---------------------------------------------------------------------------
(* The response bodies json_stream is run on *)

Alphabet == {LBRACE, RBRACE, LBRACK, RBRACK, QUOTE, BACKSLASH, "a"}

\* every character sequence up to MaxLen
CharSeqs == SeqsUpTo(Alphabet, MaxLen)

\* well-formed JSON texts
Scalars ==
    { <<"1">>,
      <<QUOTE, "s", QUOTE>>,
      <<QUOTE, BACKSLASH, QUOTE, RBRACE, QUOTE>>,
      <<QUOTE, EAcute, QUOTE>> }
Member(k, v) == <<QUOTE, k, QUOTE, ":">> \o v
Obj1(v) == <<LBRACE>> \o Member("a", v) \o <<RBRACE>>
Obj2(v, w) == <<LBRACE>> \o Member("a", v) \o <<",">> \o Member("b", w) \o <<RBRACE>>
Arr1(v) == <<LBRACK>> \o v \o <<RBRACK>>
Arr2(v, w) == <<LBRACK>> \o v \o <<",">> \o w \o <<RBRACK>>
Values0 == Scalars \cup { <<LBRACK, RBRACK>>, <<LBRACE, RBRACE>> }
Values1 ==
    Values0 \cup {Arr1(v) : v \in Values0} \cup {Obj1(v) : v \in Values0}
        \cup { Arr2(<<"1">>, <<"2">>) }
Objects ==
    {Obj1(v) : v \in Values1}
        \cup {Obj2(v, w) : v \in Values1, w \in {<<"1">>, <<LBRACE, RBRACE>>, Obj1(<<"3">>)}}

\* the example of the documentation: {"a":1,"b":[1,2]} then {"c":3}
ExampleFrames ==
    << Obj2(<<"1">>, Arr2(<<"1">>, <<"2">>)),
       <<LBRACE>> \o Member("c", <<"3">>) \o <<RBRACE>> >>

\* streams of one or two top-level objects
ObjectStreams ==
    {<<o>> : o \in Objects}
        \cup {<<o, p>> : o \in Objects, p \in {Obj1(<<"1">>), Obj1(<<LBRACK, RBRACK>>)}}
        \cup {ExampleFrames}

HandlerFailAt == {0, 1}

InitJson ==
    /\ \E failAt \in HandlerFailAt :
          \/ \E s \in CharSeqs :
                net = [text |-> s, rest |-> Utf8Bytes(s), failAt |-> failAt,
                       objects |-> <<>>, midString |-> FALSE, midEscape |-> FALSE]
          \/ \E os \in ObjectStreams :
                net = [text |-> Flatten(os), rest |-> Utf8Bytes(Flatten(os)),
                       failAt |-> failAt, objects |-> os,
                       midString |-> FALSE, midEscape |-> FALSE]
    /\ js = JsonLocals
    /\ StreamIdle
    /\ TokenIdle
    /\ ConfigIdle

\* stream.next() yields Some(Ok(chunk)): the next n bytes of the body
JsonChunk ==
    /\ js.ret = "running"
    /\ \E n \in 0..Len(net.rest) :
          /\ js' = OnChunk(js, SubSeq(net.rest, 1, n), net.failAt)
          /\ net' = [net EXCEPT
                        !.rest = SubSeq(net.rest, n + 1, Len(net.rest)),
                        !.midString = @ \/ (n < Len(net.rest) /\ js'.quoting),
                        !.midEscape = @ \/ (n < Len(net.rest) /\ js'.escape)]
    /\ UNCHANGED <<streamVars, configVars, tokenVars>>

\* stream.next() yields None
JsonEnd ==
    /\ js.ret = "running"
    /\ net.rest = <<>>
    /\ js' = OnEnd(js)
    /\ UNCHANGED net
    /\ UNCHANGED <<streamVars, configVars, tokenVars>>

\* stream.next() yields Some(Err(e)): `chunk?`
JsonTransportError ==
    /\ js.ret = "running"
    /\ js' = [js EXCEPT !.ret = "ErrStream"]
    /\ UNCHANGED net
    /\ UNCHANGED <<streamVars, configVars, tokenVars>>

NextJson == JsonChunk \/ JsonEnd \/ JsonTransportError

SpecJson == InitJson /\ [][NextJson]_vars

---------------------------------------------------------------------------
(* Claims about json_stream, checked under SpecJson *)

\* C1: whatever the cuts between chunks (at character boundaries), once
\* json_stream has returned, from the end of the stream or from a failing
\* handler, the handler has been called with the same frames, and the
\* function has returned the same result, as when the whole body arrives as
\* one single chunk.
C1_ChunkingInvariant ==
    js.ret \in {"Ok", "ErrHandler"} =>
        LET one == OneChunkRun(Utf8Bytes(net.text), net.failAt)
        IN js.calls = one.calls /\ js.ret = one.ret

\* a finished run that emitted a frame, with one chunk ended inside a string
\* literal and one right after an escaping backslash
C1_Witness ==
    /\ js.ret = "Ok"
    /\ js.calls # <<>>
    /\ net.midString
    /\ net.midEscape

\* C2: a stream of well-formed JSON objects yields exactly one handler call
\* per top-level object, in order, each with the object's text from its
\* opening brace through its matching closing brace.
C2_OneFramePerObject ==
    (js.ret = "Ok" /\ net.objects # <<>> /\ net.failAt = 0) =>
        js.calls = net.objects

---------------------------------------------------------------------------
(* Claims about the streaming pipeline, checked under SpecStream           *)
(* (C8 under SpecStreamFair)                                               *)

\* whether send_message_streaming returned from the arm of watch_abort
ReturnedOnAbort == sms.pc = "returned" /\ sms.inner.tag = "Pending"

\* C3: handler.done() has not been invoked while send_message_streaming is
\* still in its select!, and has been invoked exactly once when it has
\* returned, whichever arm it returned from.
C3_DoneExactlyOnce ==
    /\ sms.pc = "select" => DoneCount(handler) = 0
    /\ sms.pc = "returned" => DoneCount(handler) = 1

\* a dry-run exchange that ended on the abort after some token was delivered
C3_Witness ==
    /\ ReturnedOnAbort
    /\ stream.dry_run
    /\ stream.extracted # <<>>
    /\ DoneCount(handler) = 1

\* C4: when the watcher's arm wins, done() has run, the call returns Ok, and
\* the text of the buffer at that poll is what send_stream then returns,
\* whatever the async block still had to deliver.
C4_AbortIsSuccess ==
    ReturnedOnAbort =>
        /\ sms.ret = Ok
        /\ DoneCount(handler) = 1
        /\ HandlerGetBuffer(handler) = sms.tick
        /\ ss.pc = "returned" => ss.ret = [tag |-> "Ok", output |-> sms.tick]

\* send_stream has returned after an abort that cut a network stream short
C4_Witness ==
    /\ ReturnedOnAbort
    /\ ss.pc = "returned"
    /\ ~stream.dry_run
    /\ stream.source # <<>>
    /\ sms.tick # <<>>

\* C5: when the async block ends with an error, the call returns that error
\* under the context of the exchange, and done() has been invoked by then.
C5_ErrorAfterDone ==
    (sms.pc = "returned" /\ sms.inner.tag = "Err") =>
        /\ DoneCount(handler) = 1
        /\ sms.ret = [tag |-> "Err", error |-> sms.inner.error,
                      context |-> <<"Failed to get answer">>]

\* the stream failed after a token was delivered
C5_Witness ==
    /\ sms.pc = "returned"
    /\ sms.inner = Err("inner")
    /\ stream.extracted # <<>>

\* C6 as claimed: on the failure path send_stream still gives its caller the
\* text accumulated in the handler's buffer.
C6_CallerGetsPartialOutput ==
    (ss.pc = "returned" /\ sms.ret.tag = "Err" /\ handler.buffer # <<>>) =>
        /\ "output" \in DOMAIN ss.ret
        /\ ss.ret.output = handler.buffer

\* C6 as amended: on the failure path send_stream returns the error of
\* send_message_streaming alone, and no text: the buffer is read, but its
\* text does not reach the caller.
C6_FailureReturnsErrorOnly ==
    (ss.pc = "returned" /\ sms.ret.tag = "Err") =>
        /\ ss.ret = sms.ret
        /\ "output" \notin DOMAIN ss.ret

\* send_stream has returned an error after tokens were delivered
C6_Witness ==
    /\ ss.pc = "returned"
    /\ ss.ret.tag = "Err"
    /\ handler.buffer # <<>>

\* C7: the tokens sent on the render channel are the tokens extracted from
\* the stream, in the same order, and the text send_stream returns is the
\* concatenation of all of them.
C7_TokensInOrder ==
    /\ SentTexts(handler.sender) = stream.extracted
    /\ (ss.pc = "returned" /\ ss.ret.tag = "Ok") =>
            ss.ret.output = Flatten(stream.extracted)

\* send_stream has returned the text of two different tokens
C7_Witness ==
    /\ ss.pc = "returned"
    /\ ss.ret.tag = "Ok"
    /\ Len(stream.extracted) >= 2
    /\ stream.extracted[1] # stream.extracted[2]

\* C8: once the abort signal is set, send_message_streaming eventually
\* returns, also when the stream neither yields a token nor ends.
C8_AbortEventuallyReturns == [](abort => <>(sms.pc = "returned"))

\* the call returned on the abort while the stream had delivered nothing of
\* what it still held
C8_Witness ==
    /\ abort
    /\ ReturnedOnAbort
    /\ stream.extracted = <<>>
    /\ stream.source # <<>>

----------------------------------------------------------------------------
(* Claims about the Config's roles and sessions *)

\* the three operations that set a role
RoleSetters == {"set_role", "set_prompt", "set_role_obj"}

\* the active session of c holds at least one message
InNonEmptySession(c) == c.session # None /\ ~SessionIsEmpty(c.session[1])

\* the active session of c is empty
InEmptySession(c) == c.session # None /\ SessionIsEmpty(c.session[1])

\* name is the name of a role that exists
RoleExists(name) == \E r \in Roles \cup {RoleTemp} : r.name = name

\* name is the name of a role that exists and that names no model, or a
\* model some client offers
RoleUsable(name) ==
    \E r \in Roles \cup {RoleTemp} :
        /\ r.name = name
        /\ r.model_id # None => ModelFound(r.model_id[1])

\* C9, as stated: setting a role while the active session holds a message
\* fails with the session-not-empty condition; setting a role while the
\* active session is empty succeeds, and state() is then
\* EmptySessionWithRole.
C9_SetRoleBySessionState ==
    [][ last'.op \in RoleSetters =>
          /\ InNonEmptySession(config) => last'.ret = Err("SessionNotEmpty")
          /\ InEmptySession(config) =>
                /\ last'.ret = Ok
                /\ StateOf(config') = "EmptySessionWithRole" ]_vars

\* C9, amended: setting a role while the active session holds a message
\* fails and changes nothing, with the session-not-empty condition when the
\* role exists; setting a role that exists and names no model, or an
\* available one, while the active session is empty succeeds, and state() is
\* then EmptySessionWithRole.
C9_SetUsableRoleBySessionState ==
    [][ last'.op \in RoleSetters =>
          /\ InNonEmptySession(config) =>
                /\ last'.ret.tag = "Err"
                /\ RoleExists(last'.arg) => last'.ret = Err("SessionNotEmpty")
                /\ config' = config
          /\ (InEmptySession(config) /\ RoleUsable(last'.arg)) =>
                /\ last'.ret = Ok
                /\ StateOf(config') = "EmptySessionWithRole"
                /\ config'.role[1].name = last'.arg ]_vars

\* set_role has succeeded in an empty session, which now has that role
C9_Witness ==
    /\ last.op = "set_role"
    /\ last.ret = Ok
    /\ StateOf(config) = "EmptySessionWithRole"
    /\ config.role[1].name = last.arg

\* C10: clearing the role while state() is Session is rejected: clear_role
\* fails and the role stays set.
C10_ClearRoleRejected ==
    [][ (last'.op = "clear_role" /\ StateOf(config) \in UnableChangeRole
                                /\ config.role # None) =>
          /\ last'.ret.tag = "Err"
          /\ config'.role = config.role ]_vars

\* the state() of a Config with an empty session, by its role
EmptyStateFor(c) == IF c.role # None THEN "EmptySessionWithRole" ELSE "EmptySession"

\* start_session(name) called on f opens a new session: no name is given, or
\* no session file has that name
OpensNewSession(f, name) == name = None \/ f.sessions[name[1]] = None

\* C11, as stated: start_session called from a non-session state (Normal or
\* Role) leaves state() EmptySession when no role is active and
\* EmptySessionWithRole when a role is active.
C11_StartSessionEntersEmptyState ==
    [][ (last'.op = "start_session" /\ config.session = None) =>
            StateOf(config') = EmptyStateFor(config) ]_vars

\* C11, amended: a start_session that succeeds from a non-session state
\* leaves a session active and the role as it was; state() is then
\* EmptySession or EmptySessionWithRole, by the role, whenever that session
\* is empty, and it is empty when the session is new and there is no last
\* exchange to take in.
C11_SuccessfulStartEntersSession ==
    [][ (last'.op = "start_session" /\ config.session = None /\ last'.ret = Ok) =>
          /\ config'.session # None
          /\ config'.role = config.role
          /\ SessionIsEmpty(config'.session[1]) =>
                StateOf(config') = EmptyStateFor(config)
          /\ ~SessionIsEmpty(config'.session[1]) => StateOf(config') = "Session"
          /\ (OpensNewSession(files, last'.arg) /\ config.last_message = None) =>
                SessionIsEmpty(config'.session[1]) ]_vars

\* start_session has succeeded while a role was active, and the session is
\* empty
C11_Witness ==
    /\ last.op = "start_session"
    /\ last.ret = Ok
    /\ config.role # None
    /\ StateOf(config) = "EmptySessionWithRole"

----------------------------------------------------------------------------
(* Claims about ending, saving and compressing sessions *)

\* C12: after end_session, called in any in-session state, and on every
\* return path (an error included), no session is active and state() is Role
\* if a role is set and Normal otherwise; end_session neither sets nor
\* clears the role.
C12_EndSessionLeavesSession ==
    [][ (last'.op = "end_session" /\ config.session # None) =>
          /\ config'.session = None
          /\ (config'.role # None) = (config.role # None)
          /\ StateOf(config') = IF config.role # None THEN "Role" ELSE "Normal" ]_vars

\* end_session has returned an error while a role is set, and no session is
\* active
C12_Witness ==
    /\ last.op = "end_session"
    /\ last.ret.tag = "Err"
    /\ config.session = None
    /\ StateOf(config) = "Role"

\* the user turn and the assistant reply of an exchange
Exchange(input, output) ==
    << [role |-> "user", content |-> input],
       [role |-> "assistant", content |-> output] >>

\* C13, as stated: the first exchange recorded by save_message while state()
\* is EmptySession or EmptySessionWithRole appends the user turn and the
\* assistant reply to the session, and state() becomes Session.
C13_FirstExchangeEntersSession ==
    [][ (last'.op = "save_message" /\ InEmptySession(config)) =>
          /\ config'.session[1].messages =
                Exchange(last'.arg, config'.last_message[1].output)
          /\ StateOf(config') = "Session" ]_vars

\* C13, amended: the same, when the Config is not in dry-run mode; in
\* dry-run mode save_message only remembers the exchange as the last message
\* and the session stays empty.
C13_FirstExchangeUnlessDryRun ==
    [][ (last'.op = "save_message" /\ InEmptySession(config)) =>
          /\ last'.ret = Ok
          /\ config'.last_message # None
          /\ config'.last_message[1].input = last'.arg
          /\ ~config.dry_run =>
                /\ config'.session[1].messages =
                      Exchange(last'.arg, config'.last_message[1].output)
                /\ config'.session[1].dirty
                /\ StateOf(config') = "Session"
          /\ config.dry_run =>
                /\ config'.session = config.session
                /\ StateOf(config') = StateOf(config) ]_vars

\* save_message has recorded the first exchange of a new session that has a
\* role
C13_Witness ==
    /\ last.op = "save_message"
    /\ ~config.dry_run
    /\ config.role # None
    /\ config.session # None
    /\ config.session[1].name = TEMP_SESSION_NAME
    /\ config.session[1].messages = Exchange("q", "a")

----------------------------------------------------------------------------
(* Claims about the settings and their scopes, checked under SpecSettings *)

\* the temperature and top_p stored in a scope (a session, a role, or the
\* Config itself)
StoredSettings(scope) == [temperature |-> scope.temperature, top_p |-> scope.top_p]

\* C14: the effective temperature and top_p are those of the active session
\* if there is one, otherwise those of the active role if there is one,
\* otherwise the global ones; so what set_temperature or set_top_p has just
\* been given is what is effective.
C14_SessionOverRoleOverGlobal ==
    /\ config.session # None =>
            EffectiveSettings(config) = StoredSettings(config.session[1])
    /\ (config.session = None /\ config.role # None) =>
            EffectiveSettings(config) = StoredSettings(config.role[1])
    /\ (config.session = None /\ config.role = None) =>
            EffectiveSettings(config) = StoredSettings(config)
    /\ last.op = "set_temperature" => EffectiveSettings(config).temperature = last.arg
    /\ last.op = "set_top_p" => EffectiveSettings(config).top_p = last.arg

\* a session, a role and the Config hold three different temperatures, and
\* the session's is the effective one
C14_Witness ==
    /\ config.session # None
    /\ config.role # None
    /\ config.session[1].temperature # config.role[1].temperature
    /\ config.session[1].temperature # config.temperature
    /\ config.role[1].temperature # config.temperature
    /\ EffectiveSettings(config).temperature = config.session[1].temperature

\* c with the temperature of its innermost active scope replaced by value
WithTemperature(c, value) ==
    IF c.session # None THEN [c EXCEPT !.session[1].temperature = value]
    ELSE IF c.role # None THEN [c EXCEPT !.role[1].temperature = value]
    ELSE [c EXCEPT !.temperature = value]

\* c with the top_p of its innermost active scope replaced by value
WithTopP(c, value) ==
    IF c.session # None THEN [c EXCEPT !.session[1].top_p = value]
    ELSE IF c.role # None THEN [c EXCEPT !.role[1].top_p = value]
    ELSE [c EXCEPT !.top_p = value]

\* c with the model of its innermost active scope replaced by value, the
\* Config's own model being the global one
WithModel(c, value) ==
    IF c.session # None THEN [c EXCEPT !.session[1].model_id = value]
    ELSE IF c.role # None THEN [c EXCEPT !.role[1].model_id = Some(value)]
    ELSE [c EXCEPT !.model = value]

\* C15, as stated: set_temperature, set_top_p and set_model write the new
\* value to the innermost active scope only (the session, else the role,
\* else the Config) and leave everything else as it was.
C15_WritesInnermostScopeOnly ==
    [][ /\ last'.op = "set_temperature" => config' = WithTemperature(config, last'.arg)
        /\ last'.op = "set_top_p" => config' = WithTopP(config, last'.arg)
        /\ (last'.op = "set_model" /\ last'.ret = Ok) =>
                config' = WithModel(config, last'.arg) ]_vars

\* C15, amended: set_temperature and set_top_p write the innermost active
\* scope only; a set_model that succeeds writes the model of the innermost
\* active scope and, whatever the scope, the Config's current model, never
\* the default model_id; a set_model that fails changes nothing.
C15_ModelAlsoWrittenGlobally ==
    [][ /\ last'.op = "set_temperature" => config' = WithTemperature(config, last'.arg)
        /\ last'.op = "set_top_p" => config' = WithTopP(config, last'.arg)
        /\ (last'.op = "set_model" /\ last'.ret = Ok) =>
                config' = [WithModel(config, last'.arg) EXCEPT !.model = last'.arg]
        /\ (last'.op = "set_model" /\ last'.ret # Ok) => config' = config ]_vars

\* set_temperature has written the session's temperature, and the role's and
\* the Config's are other values
C15_Witness ==
    /\ last.op = "set_temperature"
    /\ config.session # None
    /\ config.role # None
    /\ config.session[1].temperature = last.arg
    /\ config.role[1].temperature # last.arg
    /\ config.temperature # last.arg

----------------------------------------------------------------------------
(* Claims about the compression of a session, checked under SpecCompress *)

\* should_compress_session has just returned v
TriggerReturned(v) ==
    last'.op = "should_compress_session" /\ last'.ret = Returned(v)

\* C16: a should_compress_session that returns true raises the session's
\* compressing flag, which was down; while the flag is up every call returns
\* false and changes nothing, however far the token estimate is over the
\* threshold.
C16_OneCompressionInFlight ==
    [][ /\ TriggerReturned(TRUE) =>
              /\ ~IsCompressingSession(config)
              /\ IsCompressingSession(config')
        /\ (last'.op = "should_compress_session" /\ IsCompressingSession(config)) =>
              /\ last'.ret = Returned(FALSE)
              /\ config' = config ]_vars

\* the trigger has returned false for a session over the threshold whose
\* compression is pending
C16_Witness ==
    /\ last.op = "should_compress_session"
    /\ last.ret = Returned(FALSE)
    /\ IsCompressingSession(config)
    /\ SessionTokens(config.session[1]) > CompressThreshold

----------------------------------------------------------------------------
(* Claims about failing operations *)

\* the operations that change the mode
ModeOperations ==
    {"set_role", "set_prompt", "set_role_obj", "clear_role", "start_session",
     "set_model"}

\* what of a session a failed operation is to leave alone
SessionKept(session) ==
    IF session = None THEN None
    ELSE Some([messages |-> session[1].messages,
               temperature |-> session[1].temperature,
               top_p |-> session[1].top_p,
               model_id |-> session[1].model_id])

\* C18: when a mode operation returns an error, the active role, the active
\* session (its presence, messages, temperature, top_p and model) and the
\* current model are as they were before the call.
C18_FailedOperationChangesNothing ==
    [][ (last'.op \in ModeOperations /\ last'.ret.tag = "Err") =>
          /\ config'.role = config.role
          /\ SessionKept(config'.session) = SessionKept(config.session)
          /\ config'.model = config.model ]_vars

\* C19: when writing the session file fails in save_session or in
\* end_session, the error is returned and the session, with its history,
\* is still the active one.
C19_SaveFailureKeepsSession ==
    [][ (/\ last'.op \in {"save_session", "end_session"}
         /\ last'.ret = Err("Failed to save session")) =>
          /\ config'.session # None
          /\ config'.session[1].messages = config.session[1].messages ]_vars

----------------------------------------------------------------------------
(* Claims about the credential cache, checked under SpecToken *)

\* request r calls prepare_access_token in this step
Prepares(r) == requests[r].pc = "idle" /\ requests'[r].pc # "idle"

\* C20, as stated: the cache is empty until a token has been fetched, and
\* prepare_access_token starts a fetch exactly when the cached token is
\* empty or the clock is past the expiry less a safety margin (here the
\* least one, a second); otherwise it fetches nothing, returns, and leaves
\* the cached pair as it is.
C20_RefreshWithinSafetyMargin ==
    [][ /\ fetches = 0 => cache = EmptyCache
        /\ \A r \in Requests :
              Prepares(r) =>
                /\ (requests'[r].pc = "fetching") =
                      (cache.token = <<>> \/ now > cache.expiry - 1)
                /\ requests'[r].pc # "fetching" =>
                      /\ requests'[r].pc = "ready"
                      /\ cache' = cache ]_vars

\* C20, amended: the same with no safety margin: a fetch is started exactly
\* when the cached token is empty or the clock, in whole seconds, is
\* strictly past the cached expiry; a token is still used in the second of
\* its expiry.
C20_RefreshAfterExpiry ==
    [][ /\ fetches = 0 => cache = EmptyCache
        /\ \A r \in Requests :
              Prepares(r) =>
                /\ (requests'[r].pc = "fetching") =
                      (cache.token = <<>> \/ now > cache.expiry)
                /\ requests'[r].pc # "fetching" =>
                      /\ requests'[r].pc = "ready"
                      /\ cache' = cache ]_vars

\* a request found a token in the second of its expiry and went on without
\* a fetch, the cache being as it was
C20_Witness ==
    \E r \in Requests :
        /\ requests[r].pc = "ready"
        /\ requests[r].saw.token # <<>>
        /\ requests[r].at = requests[r].saw.expiry
        /\ cache = requests[r].saw

----------------------------------------------------------------------------
(* Claims about the credential cache under concurrent requests *)

\* the pairs a reader may see whole: the initial one, and what one refresh
\* assigned
WholePairs == {EmptyCache} \cup {refreshes[i] : i \in 1..Len(refreshes)}

\* C21: with several requests running prepare_access_token at once, every
\* read of the cache sees the initial empty pair or the (token, expiry) pair
\* one single refresh assigned, never the token of one refresh with the
\* expiry of another.
C21_ReadsSeeOneRefresh ==
    \A r \in Requests : requests[r].pc # "idle" => requests[r].saw \in WholePairs

----------------------------------------------------------------------------
(* Claims about saving and loading a session, checked under SpecRoundTrip *)

\* what a session file is to give back: the ordered messages and the
\* overrides
Persisted(sess) ==
    [messages |-> sess.messages, temperature |-> sess.temperature,
     top_p |-> sess.top_p, compress_threshold |-> sess.compress_threshold,
     model_id |-> sess.model_id]

\* the Config after save_session(name), end_session() and start_session of
\* the name the session was saved under, each of the first two having
\* returned Ok; none when one of them did not
SavedEndedStarted(name, env, answer) ==
    LET saved == SaveSessionOp(config, files, name, TRUE)
        ended == EndSessionOp(saved.c, saved.f, env)
        started == StartSessionOp(ended.c, ended.f, Some(saved.c.session[1].name),
                                  TRUE, answer)
    IN IF saved.ret.tag = "Ok" /\ ended.ret.tag = "Ok" THEN Some(started)
       ELSE None

----------------------------------------------------------------------------
(* Claims about messages, checked under SpecMessage *)

\* patch_system_message was run on a list that begins with a System
\* message which another message follows
PatchedSystemFirst ==
    /\ last.op = "patch_system_message"
    /\ Len(last.arg) >= 2
    /\ IsSystem(last.arg[1].role)

\* C23: when the list begins with a System message and another message
\* follows, patch_system_message leaves the list without its first message,
\* the text of the new first message being the system text, a blank line and
\* its own text; no System message is at the head, and the rest is as it was.
C23_SystemMergedIntoNext ==
    PatchedSystemFirst =>
        /\ last.ret.tag = "Value"
        /\ Len(last.ret.value) = Len(last.arg) - 1
        /\ ~IsSystem(last.ret.value[1].role)
        /\ ToText(last.ret.value[1].content)
              = ToText(last.arg[1].content) \o BlankLine \o ToText(last.arg[2].content)
        /\ Tail(last.ret.value) = Tail(Tail(last.arg))

\* Message::new was called on a plain-text input and the message built was
\* then serialized
SerializedNewMessage(input) ==
    /\ last.op = "Message::new"
    /\ last.arg = input
    /\ last'.op = "to_string"

\* C26: the message Message::new builds from a plain-text input has role
\* User and the input's text as its Text content, and serde_json::to_string
\* gives for it an object of the field role, the string user, then the field
\* content, the text as one JSON string.
C26_PlainTextMessage ==
    [][ \A input \in PlainInputs :
          /\ (last'.op = "Message::new" /\ last'.arg = input) =>
                last'.ret.value = [role |-> "User", content |-> Text(input.text)]
          /\ SerializedNewMessage(input) =>
                last'.ret.value =
                    <<LBRACE, QUOTE, "role", QUOTE, ":", QUOTE, "user", QUOTE, ",",
                      QUOTE, "content", QUOTE, ":">>
                      \o JsonString(input.text) \o <<RBRACE>> ]_vars

\* the message built from the text b has been serialized to
\* {"role":"user","content":"b"}
C26_Witness ==
    /\ last.op = "to_string"
    /\ last.arg = MessageNew([text |-> <<"b">>, medias |-> <<>>])
    /\ last.ret.value =
          <<LBRACE, QUOTE, "role", QUOTE, ":", QUOTE, "user", QUOTE, ",",
            QUOTE, "content", QUOTE, ":", QUOTE, "b", QUOTE, RBRACE>>

----------------------------------------------------------------------------
(* More claims about json_stream, checked under SpecJson *)

\* C24: a handler that fails on its n-th frame is invoked n times and no
\* more, whatever follows that frame in the chunk or in the stream, and
\* json_stream has returned the handler's failure once the n-th call is made.
C24_HandlerFailureAborts ==
    net.failAt # 0 =>
        /\ Len(js.calls) <= net.failAt
        /\ Len(js.calls) = net.failAt => js.ret = "ErrHandler"
        /\ js.ret = "ErrHandler" => Len(js.calls) = net.failAt

\* the handler failed on the first of two objects that arrived in one
\* chunk: json_stream returned its failure with the second one unread
C24_Witness ==
    /\ js.ret = "ErrHandler"
    /\ Len(net.objects) = 2
    /\ js.calls = <<net.objects[1]>>
    /\ js.buffer = net.text

----------------------------------------------------------------------------
(* Claims about the temp session, checked under SpecSession *)

\* start_session with no name is called, no session being active, and
\* returns Ok
StartsTempSession ==
    /\ last'.op = "start_session" /\ last'.arg = None
    /\ config.session = None
    /\ last'.ret = Ok

\* C25, as stated: end_session leaves the file of the temp name as it is,
\* whatever it does with the session; a start_session with no name that
\* succeeds leaves no temp file and an empty session of the temp name.
C25_TempSessionStartsEmpty ==
    [][ /\ last'.op = "end_session" =>
              files'.sessions[TEMP_SESSION_NAME] = files.sessions[TEMP_SESSION_NAME]
        /\ StartsTempSession =>
              /\ files'.sessions[TEMP_SESSION_NAME] = None
              /\ config'.session # None
              /\ SessionIsTemp(config'.session[1])
              /\ config'.session[1].messages = <<>> ]_vars

\* C25, amended: the same, the new temp session holding nothing of the file
\* left over: it is empty, or holds the last exchange alone when there is
\* one (the user is asked whether to take it in).
C25_TempSessionStartsAfresh ==
    [][ /\ last'.op = "end_session" =>
              files'.sessions[TEMP_SESSION_NAME] = files.sessions[TEMP_SESSION_NAME]
        /\ StartsTempSession =>
              /\ files'.sessions[TEMP_SESSION_NAME] = None
              /\ config'.session # None
              /\ SessionIsTemp(config'.session[1])
              /\ \/ config'.session[1].messages = <<>>
                 \/ /\ config.last_message # None
                    /\ config'.session[1].messages =
                          Exchange(config.last_message[1].input,
                                   config.last_message[1].output) ]_vars

\* a temp session has been started where an earlier run had left a temp
\* file (beside a corrupt file s1): the file is gone, and the session holds
\* the last exchange
C25_Witness ==
    /\ last.op = "start_session" /\ last.arg = None /\ last.ret = Ok
    /\ files.sessions["s1"] = Some(CorruptFile)
    /\ files.sessions[TEMP_SESSION_NAME] = None
    /\ config.session # None
    /\ SessionIsTemp(config.session[1])
    /\ config.session[1].messages = Exchange("q", "a")

----------------------------------------------------------------------------
(* Claims about an exchange and the Config, checked under SpecExchange *)

\* send_stream has returned an error, or has returned after
\* send_message_streaming ended on the abort
ExchangeFailedOrCancelled ==
    /\ last.op = "send_stream"
    /\ ss.pc = "returned"
    /\ ss.ret.tag = "Err" \/ ReturnedOnAbort

\* C27: when send_stream has returned an error, or has returned after an
\* abort, the role, the session with its message list and state() are what
\* they were when the exchange was sent, whatever part of the reply had
\* arrived.
C27_FailedExchangeKeepsMode ==
    ExchangeFailedOrCancelled =>
        /\ config.role = last.arg.config.role
        /\ config.session = last.arg.config.session
        /\ StateOf(config) = StateOf(last.arg.config)

\* an exchange sent in a session that holds an earlier exchange, under a
\* role, has failed after part of the reply had arrived
C27_Witness ==
    /\ last.op = "send_stream"
    /\ ss.pc = "returned"
    /\ ss.ret.tag = "Err"
    /\ stream.extracted # <<>>
    /\ config.role # None
    /\ StateOf(config) = "Session"


\* json_stream reads one more character in this step, and goes on
ReadsOneChar ==
    /\ js.ret = "running" /\ js'.ret = "running"
    /\ Len(js'.buffer) = Len(js.buffer) + 1

\* the character read in a step that reads one
CharRead == js'.buffer[Len(js'.buffer)]

\* an object whose one value is the string of an escaped quote and a closing
\* brace: {"a":"\"}"}
EscapedQuoteObject == Obj1(<<QUOTE, BACKSLASH, QUOTE, RBRACE, QUOTE>>)

\* C28: a character read inside a string literal, a brace or a bracket
\* included, leaves the nesting stack as it is and emits nothing, and the
\* string ends exactly on a quote that no backslash escapes; the object
\* {"a":"\"}"}, read to its end, is emitted once and whole.
C28_StringsHideStructure ==
    [][ /\ (ReadsOneChar /\ js.quoting) =>
              /\ js'.balances = js.balances
              /\ js'.calls = js.calls
              /\ js'.start = js.start
              /\ js'.quoting = ~(CharRead = QUOTE /\ ~js.escape)
        /\ (net.text = EscapedQuoteObject /\ js'.ret = "Ok" /\ net.failAt = 0) =>
              js'.calls = <<EscapedQuoteObject>> ]_vars

\* {"a":"\"}"} has been read to its end and emitted once, a chunk having
\* ended right after the backslash
C28_Witness ==
    /\ net.text = EscapedQuoteObject
    /\ net.midEscape
    /\ js.ret = "Ok"
    /\ js.calls = <<EscapedQuoteObject>>


\* json_stream reads the character ch outside a string literal in this step
ReadsOutsideString(ch) == ReadsOneChar /\ ~js.quoting /\ CharRead = ch

\* C29: a `[` read outside a string while no `{` is open, before the first
\* object as well as after earlier frames were emitted, leaves the nesting
\* stack empty.
C29_TopLevelBracketIgnored ==
    [][ (ReadsOutsideString(LBRACK) /\ js.balances = <<>>) =>
            js'.balances = <<>> ]_vars


\* how many `{` the nesting stack holds
OpenBraces(balances) ==
    Cardinality({i \in 1..Len(balances) : balances[i] = LBRACE})

\* C30: a `]` read outside a string emits no frame and removes no `{` from
\* the nesting stack: it closes the innermost open `[`, if there is one.
C30_BracketClosesBracketOnly ==
    [][ ReadsOutsideString(RBRACK) =>
          /\ js'.calls = js.calls
          /\ OpenBraces(js'.balances) = OpenBraces(js.balances) ]_vars

----------------------------------------------------------------------------
(* More claims about the streaming pipeline, checked under SpecStream *)

\* the finalization hook has been invoked for the exchange
Finalized(h) == DoneCount(h) > 0

\* C31: once an arm of the select! has run, the other activity is dropped:
\* from the invocation of the finalization hook on, the handler is given no
\* token and sends nothing more on the render channel, so done is the last
\* event of the exchange, whatever was still to come from the stream.
C31_DoneIsLastEvent ==
    [][ /\ Finalized(handler) => handler' = handler
        /\ Finalized(handler') =>
              /\ handler'.sender[Len(handler'.sender)].event = "Done"
              /\ DoneCount(handler') = 1 ]_vars

\* the watcher won the race after a token was delivered and with tokens
\* still to come: send_stream has returned, done being the last event
C31_Witness ==
    /\ ss.pc = "returned"
    /\ ReturnedOnAbort
    /\ stream.extracted # <<>>
    /\ stream.source # <<>>
    /\ handler.sender[Len(handler.sender)].event = "Done"

----------------------------------------------------------------------------
(* More claims about the compression of a session, checked under           *)
(* SpecCompress                                                            *)

\* C32: while no session is active, compress_session returns and leaves the
\* Config and the files as they are, should_compress_session returns false
\* and leaves them so as well, and is_compressing_session is false.
C32_NoSessionNoCompression ==
    [][ config.session = None =>
          /\ ~IsCompressingSession(config)
          /\ last'.op = "compress_session" =>
                /\ last'.ret = Ok
                /\ config' = config
                /\ files' = files
          /\ last'.op = "should_compress_session" =>
                /\ last'.ret = Returned(FALSE)
                /\ config' = config
                /\ files' = files ]_vars

\* compress_session has returned with no session active, an exchange having
\* been made outside a session
C32_Witness ==
    /\ last.op = "compress_session"
    /\ last.ret = Ok
    /\ config.session = None
    /\ config.last_message # None

----------------------------------------------------------------------------
(* More claims about the Config, checked under SpecConfig *)

\* C33: start_session called while a session is active returns the error
\* 'Already in a session' and leaves the Config, so the one active session,
\* the role and the model, and the files as they are.
C33_OneSessionAtATime ==
    [][ (last'.op = "start_session" /\ config.session # None) =>
          /\ last'.ret = Err("Already in a session")
          /\ config' = config
          /\ files' = files ]_vars

\* start_session has been refused in a session that holds an exchange
C33_Witness ==
    /\ last.op = "start_session"
    /\ last.ret = Err("Already in a session")
    /\ config.session # None
    /\ ~SessionIsEmpty(config.session[1])

----------------------------------------------------------------------------
(* Claims about the frames json_stream emits, checked under SpecJson *)

RECURSIVE BracesBalanced(_, _, _, _)
\* whether the braces outside the string literals of a text pair up, depth
\* being the braces open so far
BracesBalanced(text, depth, quoting, escape) ==
    IF text = <<>> THEN depth = 0 /\ ~quoting
    ELSE LET ch == Head(text)
         IN IF quoting
            THEN IF ch = BACKSLASH THEN BracesBalanced(Tail(text), depth, TRUE, ~escape)
                 ELSE BracesBalanced(Tail(text), depth, ~(~escape /\ ch = QUOTE), FALSE)
            ELSE CASE ch = QUOTE -> BracesBalanced(Tail(text), depth, TRUE, FALSE)
                   [] ch = LBRACE -> BracesBalanced(Tail(text), depth + 1, FALSE, FALSE)
                   [] ch = RBRACE ->
                         depth > 0 /\ BracesBalanced(Tail(text), depth - 1, FALSE, FALSE)
                   [] OTHER -> BracesBalanced(Tail(text), depth, FALSE, FALSE)

\* C34: a `}` read outside a string while no `{` is open emits nothing, and
\* every frame the handler was given begins with `{`, ends with `}` and has
\* its braces outside string literals balanced.
C34_FramesAreObjects ==
    [][ /\ (ReadsOutsideString(RBRACE) /\ OpenBraces(js.balances) = 0) =>
              js'.calls = js.calls
        /\ \A k \in 1..Len(js'.calls) :
              /\ Head(js'.calls[k]) = LBRACE
              /\ js'.calls[k][Len(js'.calls[k])] = RBRACE
              /\ BracesBalanced(js'.calls[k], 0, FALSE, FALSE) ]_vars


\* C35: an end_session that returns Ok from a state with an active session
\* leaves the current model equal to the configured default model_id,
\* whether the session was saved, was not dirty, or the save was declined
\* or skipped.
C35_EndSessionRestoresModel ==
    [][ (last'.op = "end_session" /\ config.session # None /\ last'.ret = Ok) =>
           config'.model = config'.model_id ]_vars

----------------------------------------------------------------------------
(* More claims about the credential cache, checked under SpecToken *)

\* request r's fetch of a token ends in this step without a token
FetchFailed(r) ==
    /\ requests[r].pc = "fetching"
    /\ requests'[r].pc # "fetching"
    /\ refreshes' = refreshes

\* C36: when the fetch of the access token fails, prepare_access_token
\* returns the error, the cached pair is left as it was, and no request is
\* built for that call: the request is given up.
C36_FailedFetchKeepsCache ==
    [][ \A r \in Requests :
          /\ FetchFailed(r) => (requests'[r].pc = "failed" /\ cache' = cache)
          /\ requests[r].pc = "failed" =>
                /\ requests'[r].pc \in {"failed", "idle"}
                /\ requests'[r].bearer = <<>> ]_vars

C36_Witness ==
    \E r \in Requests :
        /\ requests[r].pc = "failed"
        /\ requests[r].bearer = <<>>
        /\ requests[r].saw # EmptyCache
        /\ cache = requests[r].saw


\* the tokens the successful refreshes stored
RefreshedTokens == {refreshes[i].token : i \in 1..Len(refreshes)}

\* C37: under any interleaving of concurrent requests, every request that
\* is built carries a non-empty bearer token that a successful refresh wrote
\* to the cache; none is built from the initial empty token.
C37_BearerIsRefreshedToken ==
    \A r \in Requests :
        requests[r].pc = "built" =>
            /\ requests[r].bearer # <<>>
            /\ requests[r].bearer \in RefreshedTokens

----------------------------------------------------------------------------
(* A claim about save_message, checked under SpecConfig *)

\* C38: in dry-run mode save_message returns Ok and changes only
\* last_message, which it sets to the given input and output: the session,
\* its messages and dirty flag, and the messages file are as they were. In
\* every mode last_message is the given input with an output.
C38_DryRunSavesNothing ==
    [][ last'.op = "save_message" =>
          /\ config'.last_message # None
          /\ config'.last_message[1].input = last'.arg
          /\ config.dry_run =>
                /\ last'.ret = Ok
                /\ files' = files
                /\ config'.session = config.session
                /\ \E output \in Outputs :
                      config' = [config EXCEPT !.last_message =
                                    Some([input |-> last'.arg, output |-> output])] ]_vars

C38_Witness ==
    /\ last.op = "save_message"
    /\ config.dry_run
    /\ config.save
    /\ config.session # None
    /\ config.last_message # None
    /\ config.last_message[1].output # ""

----------------------------------------------------------------------------
(* A claim about patch_system_message, checked under SpecMessage *)

\* C39: on a non-empty list whose first message is not a System message
\* patch_system_message changes nothing; otherwise it removes exactly one
\* message, the leading System one: the message that followed it is first
\* and keeps its role, and every message after that one is as it was, in
\* the same order.
C39_PatchFrame ==
    [][ (last'.op = "patch_system_message" /\ last'.arg # <<>>) =>
          LET messages == last'.arg
              ret == last'.ret
          IN /\ ret.tag = "Value"
             /\ ~IsSystem(messages[1].role) => ret.value = messages
             /\ IsSystem(messages[1].role) =>
                   /\ Len(ret.value) = Len(messages) - 1
                   /\ Len(messages) > 1 => ret.value[1].role = messages[2].role
                   /\ \A k \in 2..Len(ret.value) : ret.value[k] = messages[k + 1] ]_vars

C39_Witness ==
    /\ last.op = "patch_system_message"
    /\ Len(last.arg) = MaxMessages
    /\ IsSystem(last.arg[1].role)
    /\ IsSystem(last.arg[3].role)
    /\ last.ret.value[1].content # last.arg[2].content
    /\ last.ret.value[2] = last.arg[3]

====
